---- MODULE Spec2Model ----
(***************************************************************************)
(* Behavior intelligence and adaptive planning engine of the Pulse         *)
(* backend: IntelligenceService.compute_metrics, PlanService and           *)
(* ReportService, modelled as operations on their tables.                  *)
(*                                                                         *)
(* Numbers: a volume multiplier is held in hundredths (1.0 is 100), a      *)
(* consistency score and a percentage in tenths (83.3 is 833), a date is   *)
(* a day number whose weekday is day % 7 (0 is Monday).  A nullable value   *)
(* is a set: {} is None and {v} is the value v.                            *)
(***************************************************************************)
EXTENDS Integers, Sequences, FiniteSets, TLC

\* ------------------------------------------------------------------ bounds
MaxWeek == 2          \* week_start values offered to compute_weekly_adjustment
MaxStride == 3        \* worked-out date patterns: every k-th day, k in 1..MaxStride
MaxReportWeeks == 2   \* weeks the clock runs through in the report specification
MaxWorkouts == 3      \* finalized workouts found in one week by the report query
MaxTarget == 3        \* largest target_days_per_week written to a coach profile
MaxBackDays == 1      \* metrics_date values before today passed to compute_metrics
MaxW14 == 6           \* largest workouts_14 given to the mistake detector
MaxDays == 9          \* largest `days` window asked of get_volume_over_time
MaxPerDay == 2        \* finalized workouts started on one local date

\* -------------------------------------------------------- program constants
MIN_VOLUME == 60
MAX_VOLUME == 120
DEFAULT_DAYS_PER_WEEK == 3
DEFAULT_SESSION_MINUTES == 45
DEFAULT_TARGET_DAYS_PER_WEEK == 3
DEFAULT_TARGET_SESSION_MINUTES == 45
MOMENTUM_THRESHOLD_DEFAULT == 80
MOMENTUM_THRESHOLD_AFTER_DECREASE == 85
MOMENTUM_THRESHOLD_AFTER_DELOAD == 999
WINDOW_DAYS == 30
INSUFFICIENT_BELOW == 2

TRIGGER_BURNOUT == "burnout"
TRIGGER_SLIPPING == "slipping"
TRIGGER_MOMENTUM_UP == "momentum_up"
PRIMARY_MISTAKE_VOLUME_DROP == "volume_drop"

\* ------------------------------------------------------------------ helpers
None == {}
Some(v) == {v}
Get(opt) == CHOOSE v \in opt : TRUE

Min2(a, b) == IF a <= b THEN a ELSE b
Max2(a, b) == IF a >= b THEN a ELSE b
SetMax(S) == CHOOSE x \in S : \A y \in S : y <= x
SetMin(S) == CHOOSE x \in S : \A y \in S : x <= y

\* Python round(): n/d to the nearest integer, a tie to the even neighbour.
RoundHalfEven(n, d) ==
    LET q == n \div d
        r == n % d
    IN  IF 2 * r < d THEN q
        ELSE IF 2 * r > d THEN q + 1
        ELSE IF q % 2 = 0 THEN q ELSE q + 1

\* sorted(): the elements of S within lo..hi, in ascending order.
SortedIn(S, lo, hi) ==
    SelectSeq([i \in 1..(hi - lo + 1) |-> lo + i - 1], LAMBDA d : d \in S)

First(rows) == IF Len(rows) = 0 THEN None ELSE Some(rows[1])

\* -------------------------------------------------------------------- state
Users == {"u1", "u2"}          \* rows of the users table
UnknownUser == "u0"            \* an id with no row in the users table
UserIds == Users \cup {UnknownUser}
FirstDay == 5 * 7              \* a Monday

VARIABLES
    today,         \* the current local date (user_today)
    profiles,      \* user_coach_profiles: user -> None or Some(profile)
    metrics,       \* user_behavior_metrics rows, ordered by computed_at
    plans,         \* training_plans: user -> None or Some(plan)
    adjustments,   \* weekly_plan_adjustments rows, in insertion order
    reports,       \* weekly_training_reports rows, in insertion order
    llm_calls,     \* invocations of llm_service.generate_weekly_narrative
    last,          \* the last service call: operation, arguments, path, result
    fn,            \* a pure function under evaluation: name, arguments, result
    timezones,     \* users.timezone: user -> the stored string
    pending,       \* caller -> None or Some(the writes its transaction has not committed)
    workout_rows,  \* workouts rows, in insertion order
    tokens,        \* refresh_tokens rows, in insertion order
    predictions,   \* transformation_predictions rows, ordered by computed_at
    job            \* run_weekly_job: its position in the loop and its two counters

vars == <<today, profiles, metrics, plans, adjustments, reports, llm_calls, last, fn,
          timezones, pending, workout_rows, tokens, predictions, job>>

\* the two callers of compute_weekly_adjustment, each with its own session
Callers == {"weekly_job", "plan_current"}

NoCall == [op |-> "none", user |-> "", key |-> 0, arg |-> 0, path |-> "", ret |-> None, err |-> ""]
Call(op, u, key, arg, path, ret, err) ==
    [op |-> op, user |-> u, key |-> key, arg |-> arg, path |-> path, ret |-> ret, err |-> err]
\* run_weekly_job not running
NoJob == [pc |-> "idle", users |-> << >>, success_count |-> 0, error_count |-> 0,
          prediction |-> None, adjustment |-> None]

NoFn == [name |-> "none", args |-> << >>, result |-> None]

weekday(d) == d % 7

\* A rational n/d with d > 0 (Python floats that the code only compares or rounds).
Rat(n, d) == [n |-> n, d |-> d]
RatGt(x, k) == x.n > k * x.d
RatLt(x, k) == x.n < k * x.d
RatGe(x, k) == x.n >= k * x.d
Round1(x) == RoundHalfEven(x.n * 10, x.d)      \* round(x, 1), in tenths

\* `value or default`: None and 0 are both falsy.
OrDefault(opt, default) == IF opt = None \/ Get(opt) = 0 THEN default ELSE Get(opt)

\* ---------------------------------------------------------------- timezones
DEFAULT_TIMEZONE == "Asia/Kolkata"
\* The stored strings considered: two IANA zones, the empty string, blanks only, a
\* well-formed name that is no IANA zone, and a name holding a forbidden character.
TimezoneStrings == {"Asia/Kolkata", "UTC", "", "  ", "Mars/Olympus", "Asia/Kol kata"}
\* the kinds of character each string is made of
TzChars(tz) ==
    CASE tz = "Asia/Kolkata" -> {"letter", "/"}
      [] tz = "UTC" -> {"letter"}
      [] tz = "" -> {}
      [] tz = "  " -> {" "}
      [] tz = "Mars/Olympus" -> {"letter", "/"}
      [] tz = "Asia/Kol kata" -> {"letter", "/", " "}
\* str.strip()
Strip(tz) == IF TzChars(tz) \subseteq {" "} THEN "" ELSE tz
\* `text or default`: the empty string is falsy
OrText(tz, default) == IF tz = "" THEN default ELSE tz
\* re.match(r"^[A-Za-z0-9_/+-]+$", tz)
MatchesAllowList(tz) == TzChars(tz) # {} /\ TzChars(tz) \subseteq {"letter", "digit", "_", "/", "+", "-"}
\* the names pytz (and the database) know
KnownZone(tz) == tz \in {"Asia/Kolkata", "UTC"}
\* The local date of a zone at the moment considered, relative to the date in
\* Asia/Kolkata: it is early morning there and still the previous day in UTC.
ZoneDayShift(tz) == IF tz = "UTC" THEN 0 - 1 ELSE 0

_sanitize_timezone(tz) == IF tz = "" \/ ~MatchesAllowList(tz) THEN "UTC" ELSE tz

\* pytz.timezone(tz_name or "UTC"), then the date there; None stands for
\* pytz.UnknownTimeZoneError being raised.
user_today(tz_name) ==
    LET name == OrText(tz_name, "UTC")
    IN  IF KnownZone(name) THEN Some(today + ZoneDayShift(name)) ELSE None

\* ------------------------------------------------------ IntelligenceService
MISTAKE_TO_FOCUS ==
    [inconsistent_training_days |-> "hit_target_days",
     volume_drop                |-> "add_extra_set",
     no_progression_21_days     |-> "progression_check",
     overtraining_signals       |-> "recovery_focus",
     sessions_too_short         |-> "lengthen_sessions"]

\* The delta with a zero prior volume reported as 0 percent.
_volume_delta_pct_zero_prior(volume_7, volume_prev_7) ==
    IF volume_prev_7 = None \/ volume_7 = None THEN None
    ELSE IF Get(volume_prev_7) = 0 THEN Some(Rat(0, 1))
    ELSE Some(Rat((Get(volume_7) - Get(volume_prev_7)) * 100, Get(volume_prev_7)))

_volume_delta_pct(volume_7, volume_prev_7) ==
    IF volume_prev_7 = None \/ Get(volume_prev_7) = 0 THEN None
    ELSE IF volume_7 = None THEN None
    ELSE Some(Rat((Get(volume_7) - Get(volume_prev_7)) * 100, Get(volume_prev_7)))

_max_gap_days(worked_dates, day) ==
    IF worked_dates = {} THEN None
    ELSE
      LET window_start == day - (WINDOW_DAYS - 1)
          in_window == SortedIn(worked_dates, window_start, day)
          n == Len(in_window)
      IN  IF n = 0 THEN Some(day - window_start)
          ELSE Some(SetMax({in_window[1] - window_start}
                           \cup {in_window[i + 1] - in_window[i] - 1 : i \in 1..(n - 1)}
                           \cup {day - in_window[n]}))

_common_skip_day(worked_dates, day, days_back) ==
    LET weekday_names == <<"monday", "tuesday", "wednesday", "thursday", "friday",
                           "saturday", "sunday">>
        start == day - (days_back - 1)
        skipped == {d \in start..day : d \notin worked_dates}
        count(i) == Cardinality({d \in skipped : weekday(d) = i})
        skip_counts == <<count(0), count(1), count(2), count(3), count(4), count(5), count(6)>>
        \* max(range(7), key=...): the first index holding the largest count
        max_idx == SetMin({i \in 0..6 :
                              \A j \in 0..6 : skip_counts[j + 1] <= skip_counts[i + 1]})
    IN  IF skip_counts[max_idx + 1] > 0 THEN Some(weekday_names[max_idx + 1]) ELSE None

_consistency_score(workouts_14, target_days_per_week) ==
    IF target_days_per_week <= 0 THEN Rat(100, 1)
    ELSE
      LET expected_2w == target_days_per_week * 2
      IN  IF expected_2w <= 0 THEN Rat(100, 1)
          ELSE IF workouts_14 * 100 >= 100 * expected_2w THEN Rat(100, 1)
          ELSE IF workouts_14 * 100 <= 0 THEN Rat(0, 1)
          ELSE Rat(workouts_14 * 100, expected_2w)

_dropout_risk(workouts_14, max_gap_days) ==
    IF workouts_14 = 0 THEN "high"
    ELSE IF max_gap_days # None /\ Get(max_gap_days) > 5 THEN "high"
    ELSE IF max_gap_days # None /\ Get(max_gap_days) > 3 THEN "medium"
    ELSE "low"

_burnout_risk(workouts_14, avg_duration_7, target_minutes) ==
    IF workouts_14 >= 10 /\ avg_duration_7 # None /\ Get(avg_duration_7) # 0
       /\ Get(avg_duration_7) >= 60
    THEN "medium"
    ELSE IF workouts_14 >= 12 THEN "high"
    ELSE "low"

_momentum_trend(volume_delta_pct) ==
    IF volume_delta_pct = None THEN "stable"
    ELSE IF RatGt(Get(volume_delta_pct), 10) THEN "rising"
    ELSE IF RatLt(Get(volume_delta_pct), -15) THEN "falling"
    ELSE "stable"

_adherence_type(worked_dates, day, max_gap_days) ==
    IF max_gap_days # None /\ Get(max_gap_days) > 4 THEN "sporadic"
    ELSE
      LET recent == {d \in worked_dates : day - d <= 14}
          weekend_count == Cardinality({d \in recent : weekday(d) >= 5})
      IN  IF recent = {} THEN "sporadic"
          ELSE IF weekend_count * 10 >= Cardinality(recent) * 6 THEN "weekend_warrior"
          ELSE "consistent"

\* The three mistake rules in the opposite order (volume_drop examined first).
_detect_mistake_volume_first(workouts_14, target_days, max_gap, volume_7, volume_prev_7, avg_duration_7, target_minutes, burnout_risk) ==
    LET threshold == Max2(0, target_days * 2 - 1)
    IN  IF volume_prev_7 > 0
           /\ (volume_prev_7 - volume_7) * 100 >= 25 * volume_prev_7
        THEN Some("volume_drop")
        ELSE IF workouts_14 < threshold \/ (max_gap # None /\ Get(max_gap) > 4)
        THEN Some("inconsistent_training_days")
        ELSE IF target_minutes > 15 /\ avg_duration_7 # None
                /\ Get(avg_duration_7) < target_minutes - 15
        THEN Some("sessions_too_short")
        ELSE None

_detect_mistake(workouts_14, target_days, max_gap, volume_7, volume_prev_7, avg_duration_7, target_minutes, burnout_risk) ==
    LET threshold == Max2(0, target_days * 2 - 1)
    IN  IF workouts_14 < threshold \/ (max_gap # None /\ Get(max_gap) > 4)
        THEN Some("inconsistent_training_days")
        ELSE IF volume_prev_7 > 0
                /\ (volume_prev_7 - volume_7) * 100 >= 25 * volume_prev_7
        THEN Some("volume_drop")
        ELSE IF target_minutes > 15 /\ avg_duration_7 # None
                /\ Get(avg_duration_7) < target_minutes - 15
        THEN Some("sessions_too_short")
        ELSE None

\* The focus: its key and, for the one parameterised label, the minutes put in it.
_mistake_to_focus(mistake_key, target_minutes) ==
    IF mistake_key = None \/ Get(mistake_key) \notin DOMAIN MISTAKE_TO_FOCUS THEN None
    ELSE IF Get(mistake_key) = "sessions_too_short"
    THEN Some(<<MISTAKE_TO_FOCUS[Get(mistake_key)], Max2(15, target_minutes - 15)>>)
    ELSE Some(<<MISTAKE_TO_FOCUS[Get(mistake_key)]>>)

_build_reasons(workouts_7, workouts_14, target_days, max_gap, volume_delta_pct, mistake_key) ==
    (IF target_days > 0 /\ workouts_14 < target_days * 2 THEN <<"missed_target">> ELSE << >>)
    \o (IF max_gap # None /\ Get(max_gap) > 4 THEN <<"gap_4_days">> ELSE << >>)
    \o (IF volume_delta_pct # None /\ RatLt(Get(volume_delta_pct), -20)
        THEN <<"volume_drop">> ELSE << >>)
    \o (IF mistake_key = Some("sessions_too_short") THEN <<"sessions_too_short">> ELSE << >>)
    \o (IF mistake_key = Some("inconsistent_training_days")
        THEN <<"inconsistent_training_days">> ELSE << >>)

\* The profile's target, or the default when there is no profile or the value is falsy.
ResolveTargetDays(profile) ==
    OrDefault(IF profile # None THEN Get(profile).target_days_per_week ELSE None,
              DEFAULT_TARGET_DAYS_PER_WEEK)
ResolveTargetMinutes(profile) ==
    OrDefault(IF profile # None THEN Get(profile).target_session_minutes ELSE None,
              DEFAULT_TARGET_SESSION_MINUTES)

\* The row compute_metrics builds from the query results (lines 62-136).
MetricsRow(user_id, day, profile, worked_dates, volume_7, volume_prev_7, avg_duration_7) ==
    LET target_days == ResolveTargetDays(profile)
        target_minutes == ResolveTargetMinutes(profile)
        workouts_7 == Cardinality({d \in worked_dates : day - d < 7})
        workouts_14 == Cardinality({d \in worked_dates : day - d < 14})
        volume_delta_pct == _volume_delta_pct(Some(volume_7), Some(volume_prev_7))
        max_gap == _max_gap_days(worked_dates, day)
        common_skip == _common_skip_day(worked_dates, day, WINDOW_DAYS)
        consistency_score == _consistency_score(workouts_14, target_days)
        dropout_risk == _dropout_risk(workouts_14, max_gap)
        burnout_risk == _burnout_risk(workouts_14, avg_duration_7, target_minutes)
        momentum_trend == _momentum_trend(volume_delta_pct)
        adherence_type == _adherence_type(worked_dates, day, max_gap)
        mistake_key == _detect_mistake(workouts_14, target_days, max_gap, volume_7,
                                       volume_prev_7, avg_duration_7, target_minutes,
                                       burnout_risk)
        focus == _mistake_to_focus(mistake_key, target_minutes)
        reasons == _build_reasons(workouts_7, workouts_14, target_days, max_gap,
                                  volume_delta_pct, mistake_key)
    IN  [user_id |-> user_id,
         metrics_date |-> day,
         consistency_score |-> Round1(consistency_score),
         dropout_risk |-> dropout_risk,
         burnout_risk |-> burnout_risk,
         momentum_trend |-> momentum_trend,
         adherence_type |-> adherence_type,
         workouts_last_7_days |-> workouts_7,
         workouts_last_14_days |-> workouts_14,
         avg_session_duration_minutes |->
             IF avg_duration_7 # None THEN Some(Get(avg_duration_7) * 10) ELSE None,
         total_volume_last_7_days |-> volume_7 * 10,
         volume_delta_vs_prev_week |->
             IF volume_delta_pct # None THEN Some(Round1(Get(volume_delta_pct))) ELSE None,
         max_gap_days |-> max_gap,
         common_skip_day |-> common_skip,
         primary_training_mistake_key |-> mistake_key,
         weekly_focus |-> focus,
         reasons |-> reasons]

SameMetricsKey(r, row) == r.user_id = row.user_id /\ r.metrics_date = row.metrics_date

\* INSERT with no conflict clause: the row is appended whatever the table holds.
InsertMetricsAlways(table, row) == Append(table, row)

\* INSERT ... ON CONFLICT (user_id, metrics_date) DO UPDATE: the row of that key
\* takes the new values and computed_at = now(), which makes it the latest row.
UpsertMetrics(table, row) ==
    Append(SelectSeq(table, LAMBDA r : ~SameMetricsKey(r, row)), row)

\* A missing user answered with None and no error.
UserNotFoundSilent(u) ==
    /\ last' = Call("compute_metrics", u, 0, 0, "user_not_found", None, "")
    /\ UNCHANGED <<job, predictions, pending, workout_rows, tokens, timezones, today, profiles, metrics, plans, adjustments, reports, llm_calls, fn>>

\* `if not user: raise ValueError("User not found")`, before anything is computed
UserNotFound(u) ==
    /\ last' = Call("compute_metrics", u, 0, 0, "user_not_found", None, "ValueError")
    /\ UNCHANGED <<job, predictions, pending, workout_rows, tokens, timezones, today, profiles, metrics, plans, adjustments, reports, llm_calls, fn>>

\* compute_metrics(user_id, metrics_date), given what its queries return.
ComputeMetrics(u, metrics_date, worked_dates, volume_7, volume_prev_7, avg_duration_7) ==
    IF u \notin Users
    THEN UserNotFound(u)
    ELSE
      LET user_tz == _sanitize_timezone(OrText(timezones[u], DEFAULT_TIMEZONE))
      IN  IF metrics_date = None /\ user_today(user_tz) = None
          THEN /\ last' = Call("compute_metrics", u, 0, 0, "user_today", None,
                               "UnknownTimeZoneError")
               /\ UNCHANGED <<job, predictions, pending, workout_rows, tokens, timezones, today, profiles, metrics, plans, adjustments, reports, llm_calls, fn>>
          ELSE IF ~KnownZone(user_tz)
          \* timezone('{user_tz}', w.start_time) in the first query: zone not recognized
          THEN /\ last' = Call("compute_metrics", u, 0, 0, "query", None, "DataError")
               /\ UNCHANGED <<job, predictions, pending, workout_rows, tokens, timezones, today, profiles, metrics, plans, adjustments, reports, llm_calls, fn>>
          ELSE
            LET day == IF metrics_date # None THEN Get(metrics_date)
                       ELSE Get(user_today(user_tz))
            IN  \E row \in {MetricsRow(u, day, profiles[u], worked_dates, volume_7,
                                       volume_prev_7, avg_duration_7)} :
                  LET conflict == \E i \in 1..Len(metrics) : SameMetricsKey(metrics[i], row)
                      table == UpsertMetrics(metrics, row)
                      stored == First(SelectSeq(table, LAMBDA r : SameMetricsKey(r, row)))
                  IN  /\ metrics' = table
                      /\ last' = Call("compute_metrics", u, day,
                                      [row |-> row, volume_7 |-> volume_7,
                                       volume_prev_7 |-> volume_prev_7, user_tz |-> user_tz],
                                      IF conflict THEN "update" ELSE "insert", stored, "")
                      /\ UNCHANGED <<job, predictions, pending, workout_rows, tokens, timezones, today, profiles, plans, adjustments, reports, llm_calls, fn>>

\* users.timezone written for the user; the column is a plain string.
StoreTimezone(u, tz) ==
    /\ timezones' = [timezones EXCEPT ![u] = tz]
    /\ timezones'[u] # timezones[u]
    /\ last' = Call("store_timezone", u, 0, 0, "", None, "")
    /\ UNCHANGED <<job, predictions, pending, workout_rows, tokens, today, profiles, metrics, plans, adjustments, reports, llm_calls, fn>>

\* A row of user_coach_profiles written for the user (its columns are nullable
\* integers with no check constraint).
SetCoachProfile(u, target_days, target_minutes) ==
    /\ profiles' = [profiles EXCEPT ![u] =
           Some([target_days_per_week |-> target_days,
                 target_session_minutes |-> target_minutes])]
    /\ profiles'[u] # profiles[u]
    /\ last' = Call("set_profile", u, 0, 0, "", None, "")
    /\ UNCHANGED <<job, predictions, pending, workout_rows, tokens, timezones, today, metrics, plans, adjustments, reports, llm_calls, fn>>

\* The most recently computed metrics row of the user (order_by computed_at desc).
LatestMetrics(table, u) ==
    LET rows == SelectSeq(table, LAMBDA r : r.user_id = u)
    IN  IF Len(rows) = 0 THEN None ELSE Some(rows[Len(rows)])

\* What _get_worked_out_dates can return relative to a day: nothing, every k-th
\* day of the trailing window, a single old workout inside or outside the window,
\* and weekends only.
Stride(k, day) == {d \in (day - (WINDOW_DAYS - 1))..day : (day - d) % k = 0}
WorkedDateSets(day) ==
    {Stride(k, day) : k \in 1..MaxStride}
    \cup {{}, {day - 20}, {day - 40},
          {d \in (day - (WINDOW_DAYS - 1))..day : weekday(d) >= 5}}
\* Volumes and durations are zero/absent when no workout falls in their window.
QueryResultsAgree(day, worked_dates, volume_7, volume_prev_7, avg_duration_7) ==
    /\ ({d \in worked_dates : day - 6 <= d /\ d <= day} = {})
          => (volume_7 = 0 /\ avg_duration_7 = None)
    /\ ({d \in worked_dates : day - 13 <= d /\ d <= day - 7} = {}) => volume_prev_7 = 0

\* -------------------------------------------------------------- PlanService
\* value is in ten-thousandths (a multiplier in hundredths times a factor in
\* hundredths); the result is in hundredths.
_clamp_volume_no_floor(value) == RoundHalfEven(Min2(MAX_VOLUME * 100, value), 100)

_clamp_volume(value) ==
    RoundHalfEven(Min2(MAX_VOLUME * 100, Max2(MIN_VOLUME * 100, value)), 100)

_metrics_snapshot(m) ==
    IF m = None THEN None
    ELSE Some([consistency_score |-> Get(m).consistency_score,
               burnout_risk |-> Get(m).burnout_risk,
               momentum_trend |-> Get(m).momentum_trend])

get_current_plan(u) == plans[u]

CreatePlan(u) ==
    LET existing == get_current_plan(u)
        profile == profiles[u]
        days == OrDefault(IF profile # None THEN Get(profile).target_days_per_week ELSE None,
                          DEFAULT_DAYS_PER_WEEK)
        minutes == OrDefault(IF profile # None THEN Get(profile).target_session_minutes
                             ELSE None, DEFAULT_SESSION_MINUTES)
        plan == [user_id |-> u,
                 days_per_week |-> days,
                 session_duration_target |-> minutes,
                 volume_multiplier |-> 100,
                 auto_adjust_enabled |-> FALSE]
    IN  /\ u \in Users
        /\ IF existing # None
           THEN /\ last' = Call("create_plan", u, 0, 0, "existing", existing, "")
                /\ UNCHANGED plans
           ELSE /\ plans' = [plans EXCEPT ![u] = Some(plan)]
                /\ last' = Call("create_plan", u, 0, 0, "created", Some(plan), "")
        /\ UNCHANGED <<job, predictions, pending, workout_rows, tokens, timezones, today, profiles, metrics, adjustments, reports, llm_calls, fn>>

\* update_preferences with auto_adjust_enabled given (the other preferences are
\* not read by the adjustment engine).
UpdatePreferences(u, auto_adjust_enabled) ==
    /\ u \in Users
    /\ IF get_current_plan(u) = None
       THEN /\ last' = Call("update_preferences", u, 0, 0, "no_plan", None, "ValueError")
            /\ UNCHANGED plans
       ELSE LET plan == [Get(plans[u]) EXCEPT !.auto_adjust_enabled = auto_adjust_enabled]
            IN  /\ plans' = [plans EXCEPT ![u] = Some(plan)]
                /\ last' = Call("update_preferences", u, 0, 0, "updated", Some(plan), "")
    /\ UNCHANGED <<job, predictions, pending, workout_rows, tokens, timezones, today, profiles, metrics, adjustments, reports, llm_calls, fn>>

\* The query for an adjustment of this plan and week, answering "none" always.
ExistingAdjustmentNever(u, week_start) == None

ExistingAdjustment(u, week_start) ==
    First(SelectSeq(adjustments, LAMBDA a : a.plan_id = u /\ a.week_start = week_start))

\* The latest adjustment of the plan before week_start.
LastAdjustment(u, week_start) ==
    LET earlier == SelectSeq(adjustments,
                             LAMBDA a : a.plan_id = u /\ a.week_start < week_start)
        weeks == {earlier[i].week_start : i \in 1..Len(earlier)}
    IN  IF Len(earlier) = 0 THEN None
        ELSE First(SelectSeq(earlier, LAMBDA a : a.week_start = SetMax(weeks)))

\* The threshold that a decrease does not raise.
MomentumThresholdNoRaise(last_adjustment) ==
    IF last_adjustment # None /\ Get(last_adjustment).is_deload
    THEN MOMENTUM_THRESHOLD_AFTER_DELOAD
    ELSE MOMENTUM_THRESHOLD_DEFAULT

\* The threshold with the deload case left out.
MomentumThresholdNoDeloadCase(last_adjustment) ==
    IF last_adjustment # None
       /\ Get(last_adjustment).new_volume_multiplier
            < Get(last_adjustment).previous_volume_multiplier
    THEN MOMENTUM_THRESHOLD_AFTER_DECREASE
    ELSE MOMENTUM_THRESHOLD_DEFAULT

MomentumThreshold(last_adjustment) ==
    IF last_adjustment = None THEN MOMENTUM_THRESHOLD_DEFAULT
    ELSE IF Get(last_adjustment).is_deload THEN MOMENTUM_THRESHOLD_AFTER_DELOAD
    ELSE IF Get(last_adjustment).new_volume_multiplier
              < Get(last_adjustment).previous_volume_multiplier
    THEN MOMENTUM_THRESHOLD_AFTER_DECREASE
    ELSE MOMENTUM_THRESHOLD_DEFAULT

\* The row with the starting multiplier recorded as its previous value.
AdjustmentRowDefaultPrevious(plan, week_start, prev, new_vol, is_deload, trigger_reason, m) ==
    [user_id |-> plan.user_id,
     plan_id |-> plan.user_id,
     week_start |-> week_start,
     previous_volume_multiplier |-> 100,
     new_volume_multiplier |-> new_vol,
     is_deload |-> is_deload,
     trigger_reason |-> trigger_reason,
     metrics_snapshot |-> _metrics_snapshot(m)]

AdjustmentRow(plan, week_start, prev, new_vol, is_deload, trigger_reason, m) ==
    [user_id |-> plan.user_id,
     plan_id |-> plan.user_id,
     week_start |-> week_start,
     previous_volume_multiplier |-> prev,
     new_volume_multiplier |-> new_vol,
     is_deload |-> is_deload,
     trigger_reason |-> trigger_reason,
     metrics_snapshot |-> _metrics_snapshot(m)]

\* Each _create_* yields the row it adds (None when it returns early); the plan's
\* multiplier becomes the row's new_volume_multiplier.
\* The deload without its "nothing changes" early return.
_create_deload_adjustment_always(plan, trigger_reason, week_start, m) ==
    LET prev == IF plan.volume_multiplier = 0 THEN 100 ELSE plan.volume_multiplier
        new_vol == _clamp_volume(prev * 60)
    IN  Some(AdjustmentRow(plan, week_start, prev, new_vol, TRUE, trigger_reason, m))

_create_deload_adjustment(plan, trigger_reason, week_start, m) ==
    LET prev == IF plan.volume_multiplier = 0 THEN 100 ELSE plan.volume_multiplier
        new_vol == _clamp_volume(prev * 60)
    IN  IF new_vol = prev THEN None
        ELSE Some(AdjustmentRow(plan, week_start, prev, new_vol, TRUE, trigger_reason, m))

\* The reduction with no check that the value moves.
_create_volume_reduction_always(plan, trigger_reason, week_start, m) ==
    LET prev == IF plan.volume_multiplier = 0 THEN 100 ELSE plan.volume_multiplier
        new_vol == _clamp_volume(prev * 80)
    IN  Some(AdjustmentRow(plan, week_start, prev, new_vol, FALSE, trigger_reason, m))

_create_volume_reduction(plan, trigger_reason, week_start, m) ==
    LET prev == IF plan.volume_multiplier = 0 THEN 100 ELSE plan.volume_multiplier
        new_vol == _clamp_volume(prev * 80)
    IN  IF new_vol = prev THEN None
        ELSE Some(AdjustmentRow(plan, week_start, prev, new_vol, FALSE, trigger_reason, m))

_create_volume_increase(plan, trigger_reason, week_start, m) ==
    LET prev == IF plan.volume_multiplier = 0 THEN 100 ELSE plan.volume_multiplier
        new_vol == _clamp_volume(Min2(120, prev + 10) * 100)
    IN  IF new_vol = prev THEN None
        ELSE Some(AdjustmentRow(plan, week_start, prev, new_vol, FALSE, trigger_reason, m))

\* The rules with momentum examined first.
DecideAdjustmentMomentumFirst(u, plan, week_start) ==
    LET m == LatestMetrics(metrics, u)
        momentum_threshold == MomentumThreshold(LastAdjustment(u, week_start))
    IN  IF m # None /\ Get(m).momentum_trend = "rising" /\ momentum_threshold < 999
           /\ Get(m).consistency_score >= momentum_threshold * 10
        THEN [rule |-> "increase",
              row |-> _create_volume_increase(plan, TRIGGER_MOMENTUM_UP, week_start, m)]
        ELSE IF m # None /\ Get(m).burnout_risk = "high"
        THEN [rule |-> "deload",
              row |-> _create_deload_adjustment(plan, TRIGGER_BURNOUT, week_start, m)]
        ELSE IF m # None
                /\ Get(m).primary_training_mistake_key = Some(PRIMARY_MISTAKE_VOLUME_DROP)
        THEN [rule |-> "reduction",
              row |-> _create_volume_reduction(plan, TRIGGER_SLIPPING, week_start, m)]
        ELSE [rule |-> "none", row |-> None]

\* The rule compute_weekly_adjustment takes for a plan with no adjustment this week
\* (lines 187-219): the rule's name and the row it creates, if any.
DecideAdjustment(u, plan, week_start) ==
    LET m == LatestMetrics(metrics, u)
        momentum_threshold == MomentumThreshold(LastAdjustment(u, week_start))
    IN  IF m # None /\ Get(m).burnout_risk = "high"
        THEN [rule |-> "deload",
              row |-> _create_deload_adjustment(plan, TRIGGER_BURNOUT, week_start, m)]
        ELSE IF m # None
                /\ Get(m).primary_training_mistake_key = Some(PRIMARY_MISTAKE_VOLUME_DROP)
        THEN [rule |-> "reduction",
              row |-> _create_volume_reduction(plan, TRIGGER_SLIPPING, week_start, m)]
        ELSE IF momentum_threshold >= 999
        THEN [rule |-> "suppressed", row |-> None]
        ELSE IF m # None /\ Get(m).momentum_trend = "rising"
                /\ Get(m).consistency_score >= momentum_threshold * 10
        THEN [rule |-> "increase",
              row |-> _create_volume_increase(plan, TRIGGER_MOMENTUM_UP, week_start, m)]
        ELSE [rule |-> "none", row |-> None]

compute_weekly_adjustment(u, week_start) ==
    LET plan == get_current_plan(u)
        existing == ExistingAdjustment(u, week_start)
    IN  /\ u \in Users
        /\ IF plan = None \/ ~Get(plan).auto_adjust_enabled
           THEN /\ last' = Call("compute_weekly_adjustment", u, week_start, 0,
                                "no_plan_or_disabled", None, "")
                /\ UNCHANGED <<plans, adjustments>>
           ELSE IF existing # None
           THEN /\ last' = Call("compute_weekly_adjustment", u, week_start, 0,
                                "existing", existing, "")
                /\ UNCHANGED <<plans, adjustments>>
           ELSE LET d == DecideAdjustment(u, Get(plan), week_start)
                IN  /\ last' = Call("compute_weekly_adjustment", u, week_start, 0,
                                    d.rule, d.row, "")
                    /\ IF d.row = None
                       THEN UNCHANGED <<plans, adjustments>>
                       ELSE /\ plans' = [plans EXCEPT ![u] = Some(
                                   [Get(plan) EXCEPT !.volume_multiplier =
                                        Get(d.row).new_volume_multiplier])]
                            /\ adjustments' = Append(adjustments, Get(d.row))
        /\ UNCHANGED <<predictions, pending, workout_rows, tokens, timezones, today, profiles, metrics, reports, llm_calls, fn>>

\* a call from outside the weekly job (GET /plan/current)
ComputeWeeklyAdjustment(u, week_start) ==
    compute_weekly_adjustment(u, week_start) /\ UNCHANGED job

\* compute_weekly_adjustment as two steps of caller c, whose session is its own
\* transaction. The first step is every read of the call (plan, existence check,
\* metrics, last adjustment) and the rows it builds: a call that builds no row
\* returns here. The second is db.commit() of _create_*: the plan UPDATE and the
\* adjustment INSERT. uq_weekly_plan_adj_plan_week rejects the INSERT when a row
\* for (plan, week_start) has been committed meanwhile; the transaction is rolled
\* back and IntegrityError leaves compute_weekly_adjustment.
ReadWeeklyAdjustment(c, u, week_start) ==
    LET plan == get_current_plan(u)
        existing == ExistingAdjustment(u, week_start)
    IN  /\ u \in Users
        /\ pending[c] = None
        /\ IF plan = None \/ ~Get(plan).auto_adjust_enabled
           THEN /\ last' = Call("compute_weekly_adjustment", u, week_start, c,
                                "no_plan_or_disabled", None, "")
                /\ UNCHANGED pending
           ELSE IF existing # None
           THEN /\ last' = Call("compute_weekly_adjustment", u, week_start, c,
                                "existing", existing, "")
                /\ UNCHANGED pending
           ELSE \E d \in {DecideAdjustment(u, Get(plan), week_start)} :
                    IF d.row = None
                    THEN /\ last' = Call("compute_weekly_adjustment", u, week_start, c,
                                         d.rule, None, "")
                         /\ UNCHANGED pending
                    ELSE /\ pending' = [pending EXCEPT ![c] = Some(
                                [user |-> u, week_start |-> week_start, rule |-> d.rule,
                                 plan |-> [Get(plan) EXCEPT !.volume_multiplier =
                                               Get(d.row).new_volume_multiplier],
                                 row |-> Get(d.row)])]
                         /\ UNCHANGED last
        /\ UNCHANGED <<job, predictions, workout_rows, tokens, timezones, today, profiles, metrics, plans,
                       adjustments, reports, llm_calls, fn>>

UniqueViolation(u, week_start) == ExistingAdjustment(u, week_start) # None

CommitWeeklyAdjustment(c) ==
    /\ pending[c] # None
    /\ LET w == Get(pending[c])
       IN  IF UniqueViolation(w.user, w.week_start)
           THEN /\ last' = Call("compute_weekly_adjustment", w.user, w.week_start, c,
                                "unique_violation", None, "IntegrityError")
                /\ UNCHANGED <<plans, adjustments>>
           ELSE /\ last' = Call("compute_weekly_adjustment", w.user, w.week_start, c,
                                w.rule, Some(w.row), "")
                /\ plans' = [plans EXCEPT ![w.user] = Some(w.plan)]
                /\ adjustments' = Append(adjustments, w.row)
    /\ pending' = [pending EXCEPT ![c] = None]
    /\ UNCHANGED <<job, predictions, workout_rows, tokens, timezones, today, profiles, metrics, reports,
                   llm_calls, fn>>

\* ----------------------------------------------------------- WorkoutService
\* Times are whole days on the clock `today`: a draft is 24 hours old one day
\* after its start.
ABANDON_AFTER_DAYS == 1
MaxWorkoutRows == 2            \* workouts ever started
MaxClock == 1                  \* days the clock advances

WorkoutById(workout_id) ==
    First(SelectSeq(workout_rows, LAMBDA w : w.id = workout_id))

\* the user's draft (order_by start_time desc, first)
ExistingDraft(u) ==
    LET drafts == SelectSeq(workout_rows,
                            LAMBDA w : w.user_id = u /\ w.lifecycle_status = "draft")
    IN  IF Len(drafts) = 0 THEN None ELSE Some(drafts[Len(drafts)])

_should_abandon_workout(workout) == today - workout.start_time >= ABANDON_AFTER_DAYS

\* _abandon_workout: the row with lifecycle_status abandoned, completion_status None
_abandon_workout(table, workout) ==
    [i \in 1..Len(table) |->
        IF table[i].id = workout.id
        THEN [table[i] EXCEPT !.lifecycle_status = "abandoned", !.completion_status = None]
        ELSE table[i]]

NewDraft(table, u) ==
    [id |-> Len(table) + 1, user_id |-> u, lifecycle_status |-> "draft",
     completion_status |-> None, start_time |-> today, end_time |-> None, sets |-> 0]

\* start_workout(user_id)
StartWorkout(u) ==
    LET existing_draft == ExistingDraft(u)
        stale == existing_draft # None /\ _should_abandon_workout(Get(existing_draft))
        table == IF stale THEN _abandon_workout(workout_rows, Get(existing_draft))
                 ELSE workout_rows
    IN  /\ u \in Users
        /\ IF existing_draft # None /\ ~stale
           THEN /\ last' = Call("start_workout", u, Get(existing_draft).id, 0,
                                "existing_draft", existing_draft, "")
                /\ UNCHANGED workout_rows
           ELSE /\ Len(workout_rows) < MaxWorkoutRows
                /\ workout_rows' = Append(table, NewDraft(table, u))
                /\ last' = Call("start_workout", u, Len(table) + 1, 0,
                                IF stale THEN "abandoned_and_created" ELSE "created",
                                Some(NewDraft(table, u)), "")
        /\ UNCHANGED <<job, predictions, pending, tokens, timezones, today, profiles, metrics, plans,
                       adjustments, reports, llm_calls, fn>>

\* get_active_workout(user_id)
GetActiveWorkout(u) ==
    LET workout == ExistingDraft(u)
    IN  /\ u \in Users
        /\ IF workout = None
           THEN /\ last' = Call("get_active_workout", u, 0, 0, "none", None, "")
                /\ UNCHANGED workout_rows
           ELSE IF _should_abandon_workout(Get(workout))
           THEN /\ workout_rows' = _abandon_workout(workout_rows, Get(workout))
                /\ last' = Call("get_active_workout", u, Get(workout).id, 0,
                                "abandoned", None, "")
           ELSE /\ last' = Call("get_active_workout", u, Get(workout).id, 0,
                                "active", workout, "")
                /\ UNCHANGED workout_rows
        /\ UNCHANGED <<job, predictions, pending, tokens, timezones, today, profiles, metrics, plans,
                       adjustments, reports, llm_calls, fn>>

\* get_workout_for_modification: "" when the workout may be modified, else the
\* status of the HTTPException
ModificationError(workout, u) ==
    IF workout = None THEN "404"
    ELSE IF Get(workout).user_id # u THEN "403"
    ELSE IF Get(workout).lifecycle_status # "draft" THEN "400"
    ELSE ""

\* add_set_to_exercise, for an exercise of the workout
AddSet(workout_id, u) ==
    LET workout == WorkoutById(workout_id)
        error == ModificationError(workout, u)
    IN  /\ IF error # ""
           THEN /\ last' = Call("add_set_to_exercise", u, workout_id, 0, "rejected",
                                None, error)
                /\ UNCHANGED workout_rows
           ELSE /\ Get(workout).sets = 0
                /\ workout_rows' = [i \in 1..Len(workout_rows) |->
                       IF workout_rows[i].id = workout_id
                       THEN [workout_rows[i] EXCEPT !.sets = 1] ELSE workout_rows[i]]
                /\ last' = Call("add_set_to_exercise", u, workout_id, 0, "added",
                                None, "")
        /\ UNCHANGED <<job, predictions, pending, tokens, timezones, today, profiles, metrics, plans,
                       adjustments, reports, llm_calls, fn>>

\* discard_workout(workout_id, user_id)
DiscardWorkout(workout_id, u) ==
    LET workout == WorkoutById(workout_id)
        error == ModificationError(workout, u)
    IN  /\ IF error # ""
           THEN /\ last' = Call("discard_workout", u, workout_id, 0, "rejected",
                                None, error)
                /\ UNCHANGED workout_rows
           ELSE /\ workout_rows' = _abandon_workout(workout_rows, Get(workout))
                /\ last' = Call("discard_workout", u, workout_id, 0, "abandoned",
                                None, "")
        /\ UNCHANGED <<job, predictions, pending, tokens, timezones, today, profiles, metrics, plans,
                       adjustments, reports, llm_calls, fn>>

\* The check that never finds a finalized workout.
AlreadyFinalizedNever(workout) == FALSE

\* finish_workout, step 3: workout.lifecycle_status == FINALIZED
AlreadyFinalized(workout) == workout.lifecycle_status = "finalized"

\* finish_workout, step 5: end_time = now(), lifecycle finalized, completion status
Finalize(workout, completion_status) ==
    [workout EXCEPT !.end_time = Some(today),
                    !.lifecycle_status = "finalized",
                    !.completion_status = Some(completion_status)]

\* finish_workout(workout_id, user_id, completion_status)
FinishWorkout(workout_id, u, completion_status) ==
    LET workout == WorkoutById(workout_id)
        user_timezone == OrText(timezones[u], DEFAULT_TIMEZONE)
    IN  /\ u \in Users
        /\ IF workout = None
           THEN /\ last' = Call("finish_workout", u, workout_id, completion_status,
                                "not_found", None, "404")
                /\ UNCHANGED workout_rows
           ELSE IF Get(workout).user_id # u
           THEN /\ last' = Call("finish_workout", u, workout_id, completion_status,
                                "not_owner", None, "403")
                /\ UNCHANGED workout_rows
           ELSE IF AlreadyFinalized(Get(workout))
           THEN /\ last' = Call("finish_workout", u, workout_id, completion_status,
                                "already_finalized", workout, "")
                /\ UNCHANGED workout_rows
           ELSE IF Get(workout).lifecycle_status = "abandoned"
           THEN /\ last' = Call("finish_workout", u, workout_id, completion_status,
                                "abandoned", None, "400")
                /\ UNCHANGED workout_rows
           ELSE IF Get(workout).sets = 0 /\ completion_status # "partial"
           THEN /\ last' = Call("finish_workout", u, workout_id, completion_status,
                                "no_sets", None, "400")
                /\ UNCHANGED workout_rows
           ELSE IF ~KnownZone(user_timezone)
           THEN /\ last' = Call("finish_workout", u, workout_id, completion_status,
                                "timezone", None, "DataError")
                /\ UNCHANGED workout_rows
           ELSE /\ workout_rows' = [i \in 1..Len(workout_rows) |->
                       IF workout_rows[i].id = workout_id
                       THEN Finalize(workout_rows[i], completion_status)
                       ELSE workout_rows[i]]
                /\ last' = Call("finish_workout", u, workout_id, completion_status,
                                "finalized",
                                Some(Finalize(Get(workout), completion_status)), "")
        /\ UNCHANGED <<job, predictions, pending, tokens, timezones, today, profiles, metrics, plans,
                       adjustments, reports, llm_calls, fn>>

\* a day passes
AdvanceClock ==
    /\ today < FirstDay + MaxClock
    /\ today' = today + 1
    /\ last' = Call("advance_clock", "", today + 1, 0, "", None, "")
    /\ UNCHANGED <<job, predictions, pending, workout_rows, tokens, timezones, profiles, metrics, plans,
                   adjustments, reports, llm_calls, fn>>

\* -------------------------------------------------------------- auth_service
REFRESH_TOKEN_EXPIRE_DAYS == 30
MaxTokens == 3                 \* refresh tokens ever created

\* secrets.token_urlsafe(32): the n-th token created is the raw string n.
\* hash_token: SHA-256 of the raw string, taken as free of collisions.
hash_token(token) == <<"sha256", token>>

StoredToken(token_hash) ==
    First(SelectSeq(tokens, LAMBDA t : t.token_hash = token_hash))

\* create_refresh_token(user_id, db, family_id): the new row; family_id None
\* stands for uuid4(), a family of its own
NewRefreshToken(table, user_id, family_id) ==
    [id |-> Len(table) + 1,
     user_id |-> user_id,
     token_hash |-> hash_token(Len(table) + 1),
     expires_at |-> today + REFRESH_TOKEN_EXPIRE_DAYS,
     token_family_id |-> IF family_id = None THEN Len(table) + 1 ELSE Get(family_id),
     revoked_at |-> None,
     used_at |-> None,
     replaced_by_id |-> None]

\* AuthService.login / register / issue_tokens_for_user: a token of a new family
IssueTokens(u) ==
    /\ u \in Users
    /\ Len(tokens) < MaxTokens
    /\ tokens' = Append(tokens, NewRefreshToken(tokens, u, None))
    /\ last' = Call("issue_tokens", u, Len(tokens) + 1, 0, "", Some(Len(tokens) + 1), "")
    /\ UNCHANGED <<job, predictions, pending, workout_rows, timezones, today, profiles, metrics, plans,
                   adjustments, reports, llm_calls, fn>>

\* The reuse check that never fires.
ReuseDetectedNever(stored_token) == FALSE

\* `if stored_token.used_at is not None`
ReuseDetected(stored_token) == stored_token.used_at # None

\* update({"revoked_at": now}) on every token of the family
RevokeFamily(table, family_id) ==
    [i \in 1..Len(table) |->
        IF table[i].token_family_id = family_id
        THEN [table[i] EXCEPT !.revoked_at = Some(today)] ELSE table[i]]

\* the rotation: the stored token used, revoked and linked to the new token
Rotate(table, stored_token) ==
    Append([i \in 1..Len(table) |->
               IF table[i].id = stored_token.id
               THEN [table[i] EXCEPT !.used_at = Some(today),
                                     !.revoked_at = Some(today),
                                     !.replaced_by_id = Some(Len(table) + 1)]
               ELSE table[i]],
           NewRefreshToken(table, stored_token.user_id, Some(stored_token.token_family_id)))

\* refresh_access_token(refresh_token, db)
RefreshAccessToken(refresh_token) ==
    LET stored_token == StoredToken(hash_token(refresh_token))
    IN  /\ IF stored_token = None
           THEN /\ last' = Call("refresh_access_token", "", refresh_token, 0,
                                "not_found", None, "Token not found")
                /\ UNCHANGED tokens
           ELSE IF ReuseDetected(Get(stored_token))
           THEN /\ tokens' = RevokeFamily(tokens, Get(stored_token).token_family_id)
                /\ last' = Call("refresh_access_token", Get(stored_token).user_id,
                                refresh_token, 0, "reuse_detected", None,
                                "Token reuse detected - all sessions revoked")
           ELSE IF Get(stored_token).revoked_at # None
           THEN /\ last' = Call("refresh_access_token", Get(stored_token).user_id,
                                refresh_token, 0, "revoked", None, "Token revoked")
                /\ UNCHANGED tokens
           ELSE IF Get(stored_token).expires_at < today
           THEN /\ last' = Call("refresh_access_token", Get(stored_token).user_id,
                                refresh_token, 0, "expired", None, "Token expired")
                /\ UNCHANGED tokens
           ELSE /\ Len(tokens) < MaxTokens
                /\ tokens' = Rotate(tokens, Get(stored_token))
                /\ last' = Call("refresh_access_token", Get(stored_token).user_id,
                                refresh_token, 0, "rotated", Some(Len(tokens) + 1), "")
        /\ UNCHANGED <<job, predictions, pending, workout_rows, timezones, today, profiles, metrics, plans,
                       adjustments, reports, llm_calls, fn>>

\* revoke_refresh_token(raw_refresh_token, db)
RevokeRefreshToken(raw_refresh_token) ==
    LET token == StoredToken(hash_token(raw_refresh_token))
    IN  /\ IF token = None
           THEN /\ last' = Call("revoke_refresh_token", "", raw_refresh_token, 0,
                                "not_found", Some(FALSE), "")
                /\ UNCHANGED tokens
           ELSE /\ tokens' = [i \in 1..Len(tokens) |->
                       IF tokens[i].id = Get(token).id
                       THEN [tokens[i] EXCEPT !.revoked_at = Some(today)] ELSE tokens[i]]
                /\ last' = Call("revoke_refresh_token", Get(token).user_id,
                                raw_refresh_token, 0, "revoked", Some(TRUE), "")
        /\ UNCHANGED <<job, predictions, pending, workout_rows, timezones, today, profiles, metrics, plans,
                       adjustments, reports, llm_calls, fn>>

\* revoke_all_user_tokens(user_id, db)
RevokeAllUserTokens(u) ==
    /\ u \in Users
    /\ tokens' = [i \in 1..Len(tokens) |->
           IF tokens[i].user_id = u /\ tokens[i].revoked_at = None
           THEN [tokens[i] EXCEPT !.revoked_at = Some(today)] ELSE tokens[i]]
    /\ last' = Call("revoke_all_user_tokens", u, 0, 0, "", None, "")
    /\ UNCHANGED <<job, predictions, pending, workout_rows, timezones, today, profiles, metrics, plans,
                   adjustments, reports, llm_calls, fn>>

\* time passes, up to a day past the life of a token issued on the first day
PassTime(days) ==
    /\ today + days <= FirstDay + REFRESH_TOKEN_EXPIRE_DAYS + 1
    /\ today' = today + days
    /\ last' = Call("pass_time", "", today + days, 0, "", None, "")
    /\ UNCHANGED <<job, predictions, pending, workout_rows, tokens, timezones, profiles, metrics, plans,
                   adjustments, reports, llm_calls, fn>>

\* --------------------------------------------------------- PredictionService
BASE_STRENGTH_WEEKS == 4
BASE_VISIBLE_WEEKS == 8
MaxPredictions == 3            \* predictions ever computed

\* the multiplier in tenths; consistency_score is in tenths of a point
_consistency_multiplier(consistency_score) ==
    IF consistency_score = None THEN 16
    ELSE IF Get(consistency_score) >= 800 THEN 8
    ELSE IF Get(consistency_score) >= 600 THEN 10
    ELSE IF Get(consistency_score) >= 400 THEN 13
    ELSE 16

\* the user's latest prediction (order_by computed_at desc, first)
PreviousPrediction(table, u) ==
    LET mine == SelectSeq(table, LAMBDA r : r.user_id = u)
    IN  IF Len(mine) = 0 THEN None ELSE Some(mine[Len(mine)])

\* delta_reason as <<cause, effect>>
DeltaReason(weeks_delta) ==
    IF weeks_delta > 0 THEN <<"Consistency dropped", "timeline extended">>
    ELSE IF weeks_delta < 0 THEN <<"Consistency improved", "timeline shortened">>
    ELSE <<"No change">>

\* The row that is never compared with the previous one.
PredictionRowNoDelta(u, m, prev) ==
    [user_id |-> u,
     strength_gain_weeks |->
         Max2(1, RoundHalfEven(BASE_STRENGTH_WEEKS
                 * _consistency_multiplier(IF m = None THEN None
                                           ELSE Some(Get(m).consistency_score)), 10)),
     visible_change_weeks |->
         Max2(2, RoundHalfEven(BASE_VISIBLE_WEEKS
                 * _consistency_multiplier(IF m = None THEN None
                                           ELSE Some(Get(m).consistency_score)), 10)),
     weeks_delta |-> None,
     delta_reason |-> None,
     current_consistency_score |->
         IF m = None THEN None ELSE Some(Get(m).consistency_score)]

\* the TransformationPrediction row built from the latest metrics row m and the
\* previous prediction prev
PredictionRow(u, m, prev) ==
    LET consistency_score == IF m = None THEN None ELSE Some(Get(m).consistency_score)
        mult == _consistency_multiplier(consistency_score)
        strength_gain_weeks == Max2(1, RoundHalfEven(BASE_STRENGTH_WEEKS * mult, 10))
        visible_change_weeks == Max2(2, RoundHalfEven(BASE_VISIBLE_WEEKS * mult, 10))
        weeks_delta == IF prev = None THEN None
                       ELSE Some(strength_gain_weeks - Get(prev).strength_gain_weeks)
    IN  [user_id |-> u,
         strength_gain_weeks |-> strength_gain_weeks,
         visible_change_weeks |-> visible_change_weeks,
         weeks_delta |-> weeks_delta,
         delta_reason |->
             IF weeks_delta = None THEN None ELSE Some(DeltaReason(Get(weeks_delta))),
         current_consistency_score |-> consistency_score]

\* compute_prediction(user_id)
compute_prediction(u) ==
    IF u \notin Users
    THEN /\ last' = Call("compute_prediction", u, 0, 0, "user_not_found", None, "ValueError")
         /\ UNCHANGED <<predictions, pending, workout_rows, tokens, timezones, today,
                        profiles, metrics, plans, adjustments, reports, llm_calls, fn>>
    ELSE /\ Len(predictions) < MaxPredictions
         /\ \E row \in {PredictionRow(u, LatestMetrics(metrics, u),
                                      PreviousPrediction(predictions, u))} :
               /\ predictions' = Append(predictions, row)
               /\ last' = Call("compute_prediction", u, 0, 0, "created", Some(row), "")
         /\ UNCHANGED <<pending, workout_rows, tokens, timezones, today, profiles,
                        metrics, plans, adjustments, reports, llm_calls, fn>>

\* a call from outside the weekly job
ComputePrediction(u) == compute_prediction(u) /\ UNCHANGED job

\* ------------------------------------------------------------ ReportService
_get_last_week_bounds(day) ==
    LET end_of_last_week == day - (weekday(day) + 1)
    IN  <<end_of_last_week - 6, end_of_last_week>>

\* The query for a report of this user and week, answering "none" always.
ExistingReportNever(u, week_start) == None

ExistingReport(u, week_start) ==
    First(SelectSeq(reports, LAMBDA r : r.user_id = u /\ r.week_start = week_start))

\* The guard of the short report, off by one (a single workout passes).
IsInsufficientBelowOne(workouts_count) == workouts_count < 1

IsInsufficient(workouts_count) == workouts_count < INSUFFICIENT_BELOW

InsufficientReport(u, week_start, week_end, workouts_count) ==
    [user_id |-> u, week_start |-> week_start, week_end |-> week_end,
     workouts_count |-> workouts_count,
     total_volume_kg |-> None, volume_delta_pct |-> None, avg_session_duration |-> None,
     primary_training_mistake_key |-> None, weekly_focus |-> None,
     positive_signal_key |-> None, reasons |-> None,
     narrative |-> None, narrative_source |-> None,
     status |-> "insufficient_data"]

\* volumes in whole kg, durations in whole minutes; stored values in tenths
_compute_aggregates(workouts_count, volume, avg_dur, prev_count, prev_volume) ==
    LET total_volume_kg == IF workouts_count = 0 THEN 0 ELSE volume
        prev == IF prev_count = 0 THEN 0 ELSE prev_volume
        volume_delta_pct == IF prev > 0 THEN Some(Rat((total_volume_kg - prev) * 100, prev))
                            ELSE None
    IN  [workouts_count |-> workouts_count,
         total_volume_kg |-> total_volume_kg * 10,
         volume_delta_pct |->
             IF volume_delta_pct # None THEN Some(Round1(Get(volume_delta_pct))) ELSE None,
         avg_session_duration |->
             IF workouts_count = 0 \/ avg_dur = None THEN None ELSE Some(Get(avg_dur) * 10),
         prs_hit |-> 0]

_max_gap_in_week(worked_dates, week_start, week_end) ==
    IF worked_dates = {} THEN Some(7)
    ELSE
      LET in_week == SortedIn(worked_dates, week_start, week_end)
          n == Len(in_week)
      IN  IF n = 0 THEN Some(7)
          ELSE Some(SetMax({in_week[1] - week_start}
                           \cup {in_week[i + 1] - in_week[i] - 1 : i \in 1..(n - 1)}
                           \cup {week_end - in_week[n]}))

\* volumes and durations in tenths, as the aggregates hold them
_detect_mistake_week(workouts_count, target_days, max_gap, volume_week, volume_prev_week, avg_duration_week, target_minutes, burnout_risk) ==
    IF workouts_count < target_days \/ (max_gap # None /\ Get(max_gap) > 4)
    THEN Some("inconsistent_training_days")
    ELSE IF volume_prev_week > 0
            /\ (volume_prev_week - volume_week) * 100 >= 25 * volume_prev_week
    THEN Some("volume_drop")
    ELSE IF target_minutes > 15 /\ avg_duration_week # None
            /\ Get(avg_duration_week) < (target_minutes - 15) * 10
    THEN Some("sessions_too_short")
    ELSE None

_build_reasons_week(workouts_count, target_days, max_gap, volume_delta_pct, mistake_key) ==
    (IF target_days > 0 /\ workouts_count < target_days THEN <<"missed_target">> ELSE << >>)
    \o (IF max_gap # None /\ Get(max_gap) > 4 THEN <<"gap_4_days">> ELSE << >>)
    \o (IF volume_delta_pct # None /\ RatLt(Get(volume_delta_pct), -20)
        THEN <<"volume_drop">> ELSE << >>)
    \o (IF mistake_key = Some("sessions_too_short") THEN <<"sessions_too_short">> ELSE << >>)
    \o (IF mistake_key = Some("inconsistent_training_days")
        THEN <<"inconsistent_training_days">> ELSE << >>)

_compute_week_diagnosis(profile, week_start, week_end, workouts_count, volume, avg_dur, prev_count, prev_volume, worked_dates_week) ==
    LET target_days == ResolveTargetDays(profile)
        target_minutes == ResolveTargetMinutes(profile)
        aggregates == _compute_aggregates(workouts_count, volume, avg_dur, prev_count,
                                          prev_volume)
        volume_week == aggregates.total_volume_kg
        avg_duration == aggregates.avg_session_duration
        volume_prev_week == IF prev_count = 0 THEN 0 ELSE prev_volume * 10
        volume_delta_pct ==
            IF volume_prev_week > 0
            THEN Some(Rat((volume_week - volume_prev_week) * 100, volume_prev_week))
            ELSE None
        max_gap == _max_gap_in_week(worked_dates_week, week_start, week_end)
        burnout_risk ==
            IF workouts_count >= 7 THEN "high"
            ELSE IF workouts_count >= 6 /\ avg_duration # None /\ Get(avg_duration) >= 600
            THEN "medium"
            ELSE "low"
        mistake_key == _detect_mistake_week(workouts_count, target_days, max_gap,
                                            volume_week, volume_prev_week, avg_duration,
                                            target_minutes, burnout_risk)
    IN  [primary_training_mistake_key |-> mistake_key,
         weekly_focus |-> _mistake_to_focus(mistake_key, target_minutes),
         reasons |-> _build_reasons_week(workouts_count, target_days, max_gap,
                                         volume_delta_pct, mistake_key)]

\* Names bound when the body of _detect_learning_feedback runs: its parameters and
\* the names bound at module level in report_service.py.
LearningFeedbackParams ==
    {"self", "total_volume_kg", "volume_delta_pct", "workouts_count",
     "avg_session_duration", "user_id", "week_start", "user_tz"}
ReportModuleNames ==
    {"re", "date", "datetime", "timedelta", "time", "Optional", "UUID", "uuid4", "pytz",
     "Session", "text", "func", "User", "UserCoachProfile", "Workout",
     "WeeklyTrainingReport", "user_today", "LifecycleStatus", "CompletionStatus",
     "MISTAKE_TO_FOCUS", "DEFAULT_TARGET_DAYS_PER_WEEK", "DEFAULT_TARGET_SESSION_MINUTES",
     "_sanitize_timezone", "_local_date_to_utc_range", "ReportService"}

\* Its first statements read week_start and week_end (lines 437-438); a name that is
\* neither a parameter nor a module-level name raises NameError.  Otherwise the
\* first matching positive signal is returned.
_detect_learning_feedback(total_volume_kg, volume_delta_pct, workouts_count, avg_session_duration, prev_count, prev_volume, prev_avg_dur) ==
    IF ~({"week_start", "week_end"} \subseteq (LearningFeedbackParams \cup ReportModuleNames))
    THEN [raised |-> "NameError", key |-> None]
    ELSE
      LET prev_agg == _compute_aggregates(prev_count, prev_volume, prev_avg_dur, 0, 0)
      IN  IF prev_agg.total_volume_kg > 0 /\ volume_delta_pct # None
             /\ Get(volume_delta_pct) > 50
          THEN [raised |-> "", key |-> Some("volume_up")]
          ELSE IF workouts_count > prev_agg.workouts_count /\ prev_agg.workouts_count >= 0
          THEN [raised |-> "", key |-> Some("consistency_up")]
          ELSE IF avg_session_duration # None /\ prev_agg.avg_session_duration # None
                  /\ Get(avg_session_duration) > Get(prev_agg.avg_session_duration) + 50
          THEN [raised |-> "", key |-> Some("duration_up")]
          ELSE [raised |-> "", key |-> None]

\* "This week you completed {count} workouts. Focus next week on {focus}." [signal]
_fallback_narrative(aggregates, diagnosis, learning) ==
    [count |-> aggregates.workouts_count,
     focus |-> diagnosis.weekly_focus,
     signal |-> learning.key]

\* A text is its wording and the numbers written in it; numbers are the digit runs.
Text(words, numbers) == [words |-> words, numbers |-> numbers]
\* the sentence _fallback_narrative builds, as a text
FallbackText(fallback) == Text(<<"fallback", fallback.focus, fallback.signal>>, {fallback.count})

\* LLMService.generate_weekly_narrative: text_out is what the model call returns
\* (None when it fails); blank text and a service that is not ready give None.
generate_weekly_narrative(bedrock_ready, text_out) ==
    IF ~bedrock_ready THEN None
    ELSE IF text_out = None \/ Get(text_out).words = << >> THEN None
    ELSE text_out

\* generate_weekly_report, lines 139-148: the generator's text when there is one,
\* else the fallback sentence. facts are the numbers of diagnosis_json.
SelectNarrative(narrative_text, fallback, facts) ==
    IF narrative_text # None
    THEN [narrative |-> narrative_text, narrative_source |-> Some("llm")]
    ELSE [narrative |-> Some(FallbackText(fallback)), narrative_source |-> Some("fallback")]

\* the numbers json.dumps(diagnosis_json) shows: the count and the digit runs of
\* the delta (kept in tenths: -30.0 shows 30 and 0)
FactNumbers(workouts_count, volume_delta_pct) ==
    {workouts_count}
    \cup (IF volume_delta_pct = None THEN {}
          ELSE LET v == Get(volume_delta_pct)
                   m == IF v < 0 THEN 0 - v ELSE v
               IN  {m \div 10, m % 10})

\* generate_weekly_report(user_id), given what its queries return for the last
\* completed week and the week before it, and what the narrative generator answers.
generate_weekly_report(u, workouts_count, volume, avg_dur, prev_count, prev_volume, prev_avg_dur, worked_dates_week, llm_text) ==
    LET bounds == _get_last_week_bounds(today)
        week_start == bounds[1]
        week_end == bounds[2]
        existing == ExistingReport(u, week_start)
        aggregates == _compute_aggregates(workouts_count, volume, avg_dur, prev_count,
                                          prev_volume)
        diagnosis == _compute_week_diagnosis(profiles[u], week_start, week_end,
                                             workouts_count, volume, avg_dur, prev_count,
                                             prev_volume, worked_dates_week)
        learning == _detect_learning_feedback(aggregates.total_volume_kg,
                                              aggregates.volume_delta_pct,
                                              aggregates.workouts_count,
                                              aggregates.avg_session_duration,
                                              prev_count, prev_volume, prev_avg_dur)
        short == InsufficientReport(u, week_start, week_end, workouts_count)
        chosen == SelectNarrative(generate_weekly_narrative(TRUE, llm_text),
                                  _fallback_narrative(aggregates, diagnosis, learning),
                                  FactNumbers(aggregates.workouts_count,
                                              aggregates.volume_delta_pct))
        full == [user_id |-> u, week_start |-> week_start, week_end |-> week_end,
                 workouts_count |-> aggregates.workouts_count,
                 total_volume_kg |-> Some(aggregates.total_volume_kg),
                 volume_delta_pct |-> aggregates.volume_delta_pct,
                 avg_session_duration |-> aggregates.avg_session_duration,
                 primary_training_mistake_key |-> diagnosis.primary_training_mistake_key,
                 weekly_focus |-> diagnosis.weekly_focus,
                 positive_signal_key |-> learning.key,
                 reasons |-> Some(diagnosis.reasons),
                 narrative |-> chosen.narrative,
                 narrative_source |-> chosen.narrative_source,
                 status |-> "generated"]
    IN  /\ IF u \notin Users
           THEN /\ last' = Call("generate_weekly_report", u, 0, workouts_count,
                                "user_not_found", None, "ValueError")
                /\ UNCHANGED <<reports, llm_calls>>
           ELSE IF existing # None
           THEN /\ last' = Call("generate_weekly_report", u, week_start, workouts_count,
                                "existing", existing, "")
                /\ UNCHANGED <<reports, llm_calls>>
           ELSE IF IsInsufficient(workouts_count)
           THEN /\ reports' = Append(reports, short)
                /\ last' = Call("generate_weekly_report", u, week_start, workouts_count,
                                "insufficient_data", Some(short), "")
                /\ UNCHANGED llm_calls
           ELSE IF learning.raised # ""
           THEN /\ last' = Call("generate_weekly_report", u, week_start, workouts_count,
                                "learning_feedback", None, learning.raised)
                /\ UNCHANGED <<reports, llm_calls>>
           ELSE /\ llm_calls' = llm_calls + 1
                /\ reports' = Append(reports, full)
                /\ last' = Call("generate_weekly_report", u, week_start, workouts_count,
                                "generated", Some(full), "")
        /\ UNCHANGED <<predictions, pending, workout_rows, tokens, timezones, today, profiles, metrics, plans, adjustments, fn>>

\* the call taken alone, the job's counters left as they are
GenerateWeeklyReport(u, workouts_count, volume, avg_dur, prev_count, prev_volume, prev_avg_dur, worked_dates_week, llm_text) ==
    /\ generate_weekly_report(u, workouts_count, volume, avg_dur, prev_count, prev_volume, prev_avg_dur, worked_dates_week, llm_text)
    /\ UNCHANGED job

\* Midnight in the user's timezone.
AdvanceDay(last_day) ==
    /\ today < last_day
    /\ today' = today + 1
    /\ last' = NoCall
    /\ UNCHANGED <<job, predictions, pending, workout_rows, tokens, timezones, profiles, metrics, plans, adjustments, reports, llm_calls, fn>>

\* ----------------------------------------------------------- specifications
Init ==
    /\ today = FirstDay
    /\ profiles = [u \in Users |-> None]
    /\ metrics = << >>
    /\ plans = [u \in Users |-> None]
    /\ adjustments = << >>
    /\ reports = << >>
    /\ llm_calls = 0
    /\ last = NoCall
    /\ pending = [c \in Callers |-> None]
    /\ workout_rows = << >>
    /\ tokens = << >>
    /\ predictions = << >>
    /\ job = NoJob
    /\ timezones = [u \in Users |-> DEFAULT_TIMEZONE]
    /\ fn = NoFn

\* The plan adjustment engine of one user, fed by that user's nightly metrics.
PlanUser == "u1"
\* <<stride of the worked-out dates, volume of the last 7 days>>, against a
\* prior-week volume of 1000: burnout high with rising momentum, burnout high with
\* a volume drop, a volume drop alone, and rising momentum at 100, 83.3 and 66.7.
PlanHistories ==
    {<<1, 1200>>, <<1, 700>>, <<3, 700>>, <<2, 1200>>, <<3, 1200>>, <<4, 1200>>}

PlanComputeMetrics ==
    \E h \in PlanHistories :
        ComputeMetrics(PlanUser, None, Stride(h[1], today), h[2], 1000, None)

NextPlan ==
    \/ CreatePlan(PlanUser)
    \/ \E b \in BOOLEAN : UpdatePreferences(PlanUser, b)
    \/ PlanComputeMetrics
    \/ \E w \in 1..MaxWeek : ComputeWeeklyAdjustment(PlanUser, FirstDay + 7 * w)

SpecPlan == Init /\ [][NextPlan]_vars

\* The plan adjustment engine over weeks that are not consecutive: a week with no
\* call lies between the two weeks computed.
SkipWeeks == {FirstDay + 7, FirstDay + 21}
NextSkip ==
    \/ CreatePlan(PlanUser)
    \/ \E b \in BOOLEAN : UpdatePreferences(PlanUser, b)
    \/ PlanComputeMetrics
    \/ \E w \in SkipWeeks : ComputeWeeklyAdjustment(PlanUser, w)

SpecSkip == Init /\ [][NextSkip]_vars

\* The weekly job and GET /plan/current computing the same user's adjustment,
\* each in its own transaction.
RaceWeek == FirstDay + 7
NextRace ==
    \/ CreatePlan(PlanUser)
    \/ \E b \in BOOLEAN : UpdatePreferences(PlanUser, b)
    \/ PlanComputeMetrics
    \/ \E c \in Callers : ReadWeeklyAdjustment(c, PlanUser, RaceWeek)
    \/ \E c \in Callers : CommitWeeklyAdjustment(c)

SpecRace == Init /\ [][NextRace]_vars

\* The metrics engine of one user: every profile target against every history.
TargetDayValues == {None} \cup {Some(t) : t \in (0 - 1)..MaxTarget}
TargetMinuteValues == {Some(45)}
Volumes7 == {0, 700, 1200}
VolumesPrev7 == {0, 900, 1000}
Durations7 == {None, Some(60)}

MetricsComputeMetrics ==
    \E wd \in WorkedDateSets(today), v7 \in Volumes7, vp \in VolumesPrev7, dur \in Durations7 :
        /\ QueryResultsAgree(today, wd, v7, vp, dur)
        /\ ComputeMetrics(PlanUser, None, wd, v7, vp, dur)

NextMetrics ==
    \/ \E td \in TargetDayValues, tm \in TargetMinuteValues : SetCoachProfile(PlanUser, td, tm)
    \/ MetricsComputeMetrics

SpecMetrics == Init /\ [][NextMetrics]_vars

\* The metrics table under repeated computation for several users and dates.
UpsertHistories == {<<1, 1200>>, <<3, 700>>}
UpsertDates == {None} \cup {Some(today - k) : k \in 1..MaxBackDays}

\* one user computes for today and for earlier dates, the others for today
UpsertCalls ==
    {<<PlanUser, md>> : md \in UpsertDates} \cup {<<u, None>> : u \in UserIds \ {PlanUser}}

UpsertComputeMetrics ==
    \E c \in UpsertCalls, h \in UpsertHistories :
        ComputeMetrics(c[1], c[2], Stride(h[1], today), h[2], 1000, None)

NextUpsert == UpsertComputeMetrics

SpecUpsert == Init /\ [][NextUpsert]_vars

\* The mistake detector as a function of its arguments.
MistakeArgs ==
    [workouts_14 : 0..MaxW14,
     target_days : (0 - 1)..MaxTarget,
     max_gap : {None, Some(4), Some(5)},
     volume_7 : {0, 750, 760, 1200},
     volume_prev_7 : {0, 1000},
     avg_duration_7 : {None, Some(29), Some(30), Some(60)},
     target_minutes : {15, 45},
     burnout_risk : {"low", "high"}]

InitMistake ==
    /\ today = FirstDay
    /\ profiles = [u \in Users |-> None]
    /\ metrics = << >>
    /\ plans = [u \in Users |-> None]
    /\ adjustments = << >>
    /\ reports = << >>
    /\ llm_calls = 0
    /\ last = NoCall
    /\ pending = [c \in Callers |-> None]
    /\ workout_rows = << >>
    /\ tokens = << >>
    /\ predictions = << >>
    /\ job = NoJob
    /\ timezones = [u \in Users |-> DEFAULT_TIMEZONE]
    /\ fn \in {[name |-> "_detect_mistake", args |-> a, result |-> None] : a \in MistakeArgs}

ApplyDetectMistake ==
    /\ fn.name = "_detect_mistake"
    /\ fn.result = None
    /\ fn' = [fn EXCEPT !.result = Some(
           _detect_mistake(fn.args.workouts_14, fn.args.target_days, fn.args.max_gap,
                           fn.args.volume_7, fn.args.volume_prev_7, fn.args.avg_duration_7,
                           fn.args.target_minutes, fn.args.burnout_risk))]
    /\ UNCHANGED <<job, predictions, pending, workout_rows, tokens, timezones, today, profiles, metrics, plans, adjustments, reports, llm_calls, last>>

NextMistake == ApplyDetectMistake

SpecMistake == InitMistake /\ [][NextMistake]_vars

\* Weekly reports of one user (and of an unknown id) while the days pass.
ReportUsers == {PlanUser, UnknownUser}
ReportWorkedDates(week_start) == {{}, {week_start}, {week_start, week_start + 6}}
ReportQueryResultsAgree(n, volume, avg_dur, wdw) ==
    /\ n = 0 => (volume = 0 /\ avg_dur = None /\ wdw = {})
    /\ n > 0 => (wdw # {} /\ Cardinality(wdw) <= n)

ReportGenerate ==
    \E u \in ReportUsers, n \in 0..MaxWorkouts, volume \in {0, 1200}, avg_dur \in {None, Some(60)},
       prev_count \in {0, 2}, wdw \in ReportWorkedDates(_get_last_week_bounds(today)[1]),
       llm_text \in {None, Some(Text(<<"summary">>, {}))} :
        /\ ReportQueryResultsAgree(n, volume, avg_dur, wdw)
        /\ GenerateWeeklyReport(u, n, volume, avg_dur, prev_count, 1000, Some(50), wdw,
                                llm_text)

NextReport ==
    \/ ReportGenerate
    \/ AdvanceDay(FirstDay + 7 * MaxReportWeeks - 1)

SpecReport == Init /\ [][NextReport]_vars

\* --------------------------------------------------------------- nightly job
\* The loop of run_nightly_job from position i on. st holds the metrics table, the
\* two counters and the error that left the loop ("" while none did). failing are
\* the users whose compute_metrics call raises; h is what the queries return.
RECURSIVE NightlyLoop(_, _, _, _, _)
NightlyLoop(user_ids, i, failing, h, st) ==
    IF i > Len(user_ids) THEN st
    ELSE
      LET user_id == user_ids[i]
      IN  IF user_id \notin Users
          THEN NightlyLoop(user_ids, i + 1, failing, h,
                           [st EXCEPT !.error_count = @ + 1])
          ELSE
            LET tz == OrText(Strip(OrText(timezones[user_id], DEFAULT_TIMEZONE)),
                             DEFAULT_TIMEZONE)
                metrics_date == user_today(tz)
                user_tz == _sanitize_timezone(OrText(timezones[user_id], DEFAULT_TIMEZONE))
            IN  IF metrics_date = None
                \* raised outside the try block: the loop and the job end here
                THEN [st EXCEPT !.raised = "UnknownTimeZoneError"]
                ELSE IF user_id \in failing \/ ~KnownZone(user_tz)
                THEN NightlyLoop(user_ids, i + 1, failing, h,
                                 [st EXCEPT !.error_count = @ + 1])
                ELSE NightlyLoop(user_ids, i + 1, failing, h,
                                 [st EXCEPT
                                    !.metrics = UpsertMetrics(@,
                                        MetricsRow(user_id, Get(metrics_date),
                                                   profiles[user_id], Stride(h[1], today),
                                                   h[2], 1000, None)),
                                    !.success_count = @ + 1])

\* run_nightly_job(), given the ids get_active_user_ids returns.
RunNightlyJob(user_ids, failing, h) ==
    \E st \in {NightlyLoop(user_ids, 1, failing, h,
                           [metrics |-> metrics, success_count |-> 0, error_count |-> 0,
                            raised |-> ""])} :
        /\ metrics' = st.metrics
        /\ last' = Call("run_nightly_job", "", today,
                        [user_ids |-> user_ids, failing |-> failing],
                        IF st.raised # "" THEN "raised" ELSE "returned",
                        IF st.raised # "" THEN None
                        ELSE Some(<<st.success_count, st.error_count>>),
                        st.raised)
        /\ UNCHANGED <<job, predictions, pending, workout_rows, tokens, timezones, today, profiles, plans, adjustments, reports, llm_calls, fn>>

\* ------------------------------------------------------------- StatsService
\* workouts maps a local date to the number of finalized (completed or partial)
\* workouts with working sets started on it; each lifts WorkoutVolume kg.
WorkoutVolume == 500

RECURSIVE SumCounts(_, _)
SumCounts(workouts, dates) ==
    IF dates = {} THEN 0
    ELSE LET d == CHOOSE x \in dates : TRUE
         IN  workouts[d] + SumCounts(workouts, dates \ {d})

\* The per-day aggregate query: one row per date in [start_date, end_date] that
\* has a workout, as a mapping bucket_date -> <<workout_count, total_volume_kg>>.
DayRows(workouts, start_date, end_date) ==
    [d \in {x \in DOMAIN workouts : workouts[x] > 0 /\ start_date <= x /\ x <= end_date}
        |-> <<workouts[d], workouts[d] * WorkoutVolume>>]

\* The per-week aggregate query: the same workouts grouped by date_trunc('week').
WeekRows(workouts, start_date, end_date) ==
    LET in_range == {x \in DOMAIN workouts :
                        workouts[x] > 0 /\ start_date <= x /\ x <= end_date}
    IN  [m \in {x - weekday(x) : x \in in_range}
            |-> LET n == SumCounts(workouts, {x \in in_range : x - weekday(x) = m})
                IN  <<n, n * WorkoutVolume>>]

VolumeDataPoint(period_start, period_end, rows) ==
    [period_start |-> period_start,
     period_end |-> period_end,
     total_volume_kg |-> IF period_start \in DOMAIN rows THEN rows[period_start][2] ELSE 0,
     workout_count |-> IF period_start \in DOMAIN rows THEN rows[period_start][1] ELSE 0]

\* Only the buckets the aggregate query returned a row for, in date order.
get_volume_over_time_sparse(end_date, days, group_by, workouts) ==
    LET start_date == end_date - (days - 1)
        rows == IF group_by = "day" THEN DayRows(workouts, start_date, end_date)
                ELSE WeekRows(workouts, start_date, end_date)
        starts == SortedIn(DOMAIN rows, start_date - 6, end_date)
    IN  [i \in 1..Len(starts) |->
            VolumeDataPoint(starts[i], IF group_by = "day" THEN starts[i] ELSE starts[i] + 6,
                            rows)]

get_volume_over_time(end_date, days, group_by, workouts) ==
    LET start_date == end_date - (days - 1)
    IN  IF group_by = "day"
        THEN LET rows == DayRows(workouts, start_date, end_date)
                 n == Max2(0, end_date - start_date + 1)
             IN  [i \in 1..n |-> VolumeDataPoint(start_date + i - 1, start_date + i - 1, rows)]
        ELSE LET rows == WeekRows(workouts, start_date, end_date)
                 start_week_monday == start_date - weekday(start_date)
                 n == IF start_week_monday <= end_date
                      THEN (end_date - start_week_monday) \div 7 + 1 ELSE 0
             IN  [i \in 1..n |->
                     VolumeDataPoint(start_week_monday + 7 * (i - 1),
                                     start_week_monday + 7 * (i - 1) + 6, rows)]

\* The volume series as a function of today, the window and the workouts.
VolumeTodays == {FirstDay + 14, FirstDay + 16, FirstDay + 20}     \* Monday, Wednesday, Sunday
VolumeOffsets == {0, 1, 3, 8}        \* days before today that may hold workouts
VolumeArgs ==
    [end_date : VolumeTodays,
     days : 1..MaxDays,
     group_by : {"day", "week"},
     counts : [VolumeOffsets -> 0..MaxPerDay]]

InitVolume ==
    /\ today = FirstDay
    /\ profiles = [u \in Users |-> None]
    /\ metrics = << >>
    /\ plans = [u \in Users |-> None]
    /\ adjustments = << >>
    /\ reports = << >>
    /\ llm_calls = 0
    /\ last = NoCall
    /\ pending = [c \in Callers |-> None]
    /\ workout_rows = << >>
    /\ tokens = << >>
    /\ predictions = << >>
    /\ job = NoJob
    /\ timezones = [u \in Users |-> DEFAULT_TIMEZONE]
    /\ fn \in {[name |-> "get_volume_over_time", args |-> a, result |-> None] : a \in VolumeArgs}

WorkoutsOf(a) == [d \in {a.end_date - k : k \in VolumeOffsets} |-> a.counts[a.end_date - d]]

ApplyVolumeOverTime ==
    /\ fn.name = "get_volume_over_time"
    /\ fn.result = None
    /\ fn' = [fn EXCEPT !.result = Some(
           get_volume_over_time(fn.args.end_date, fn.args.days, fn.args.group_by,
                                WorkoutsOf(fn.args)))]
    /\ UNCHANGED <<job, predictions, pending, workout_rows, tokens, timezones, today, profiles, metrics, plans, adjustments, reports, llm_calls, last>>

NextVolume == ApplyVolumeOverTime

SpecVolume == InitVolume /\ [][NextVolume]_vars

\* The nightly job over users whose stored timezone varies.
NightlyTimezones == {"Asia/Kolkata", "  ", "Mars/Olympus"}
\* the orders in which get_active_user_ids can return ids
NightlySelections ==
    {ids \in UNION {[1..n -> UserIds] : n \in 0..Cardinality(UserIds)} :
        \A i, j \in 1..Len(ids) : ids[i] = ids[j] => i = j}

NightlyRun ==
    \E user_ids \in NightlySelections, failing \in SUBSET Users :
        RunNightlyJob(user_ids, failing, <<3, 700>>)

NextNightly ==
    \/ \E u \in Users, tz \in NightlyTimezones : StoreTimezone(u, tz)
    \/ NightlyRun

SpecNightly == Init /\ [][NextNightly]_vars

\* compute_metrics of one user under every stored timezone string, with and
\* without an explicit metrics_date.
TimezoneHistories == {<<3, 700>>, <<1, 1200>>}
TimezoneComputeMetrics ==
    \E h \in TimezoneHistories, metrics_date \in {None, Some(today)} :
        ComputeMetrics(PlanUser, metrics_date, Stride(h[1], today), h[2], 1000, None)

NextTimezone ==
    \/ \E tz \in TimezoneStrings : StoreTimezone(PlanUser, tz)
    \/ TimezoneComputeMetrics

SpecTimezone == Init /\ [][NextTimezone]_vars

\* The lifecycle of one user's workouts: start, log a set, finish, discard, and
\* the auto-abandon of drafts a day old; the other user tries the same workouts.
WorkoutIds == 1..(MaxWorkoutRows + 1)
NextWorkout ==
    \/ StartWorkout(PlanUser)
    \/ GetActiveWorkout(PlanUser)
    \/ \E id \in WorkoutIds, u \in Users : AddSet(id, u)
    \/ \E id \in WorkoutIds, u \in Users : DiscardWorkout(id, u)
    \/ \E id \in WorkoutIds, u \in Users, completion_status \in {"completed", "partial"} :
           FinishWorkout(id, u, completion_status)
    \/ AdvanceClock

SpecWorkout == Init /\ [][NextWorkout]_vars

\* The refresh tokens of one user: sessions opened, tokens exchanged again and
\* again, logouts, and time passing up to expiry.
RawTokens == 1..(MaxTokens + 1)
NextTokens ==
    \/ IssueTokens(PlanUser)
    \/ \E t \in RawTokens : RefreshAccessToken(t)
    \/ \E t \in RawTokens : RevokeRefreshToken(t)
    \/ RevokeAllUserTokens(PlanUser)
    \/ PassTime(REFRESH_TOKEN_EXPIRE_DAYS + 1)

SpecTokens == Init /\ [][NextTokens]_vars

\* The scoring functions of IntelligenceService as functions of their arguments.
BurnoutCalls ==
    {[name |-> "_burnout_risk", args |-> a, result |-> None] :
        a \in [workouts_14 : 0..(2 * MaxW14 + 2),
               avg_duration_7 : {None, Some(0), Some(45), Some(59), Some(60), Some(90)},
               target_minutes : {45}]}

\* worked-out dates as _get_worked_out_dates returns them, against two days
GapCalls ==
    {[name |-> "_max_gap_days", args |-> [worked_dates |-> wd, today |-> day],
      result |-> None] :
        wd \in WorkedDateSets(FirstDay), day \in {FirstDay, FirstDay + 1}}

\* worked-out dates on fixed weekdays of the trailing window
WeekdayPattern(days, day) == {d \in (day - (WINDOW_DAYS - 1))..day : weekday(d) \in days}
\* weekly patterns, with and without a workout exactly 14 days back; max_gap_days
\* is the value compute_metrics passes
AdherenceDateSets(day) ==
    WorkedDateSets(day)
    \cup {WeekdayPattern(days, day) \cup extra :
             days \in {{5, 6}, {2, 5, 6}, {1, 3, 5, 6}, {0, 2, 4}, {0, 3, 5, 6}},
             extra \in {{}, {day - 14}}}
AdherenceCalls ==
    {[name |-> "_adherence_type",
      args |-> [worked_dates |-> wd, today |-> day, max_gap_days |-> _max_gap_days(wd, day)],
      result |-> None] :
        wd \in AdherenceDateSets(FirstDay), day \in (FirstDay - MaxBackDays)..FirstDay}

ScoreCalls == BurnoutCalls \cup GapCalls \cup AdherenceCalls

InitScores ==
    /\ today = FirstDay
    /\ profiles = [u \in Users |-> None]
    /\ metrics = << >>
    /\ plans = [u \in Users |-> None]
    /\ adjustments = << >>
    /\ reports = << >>
    /\ llm_calls = 0
    /\ last = NoCall
    /\ pending = [c \in Callers |-> None]
    /\ workout_rows = << >>
    /\ tokens = << >>
    /\ predictions = << >>
    /\ job = NoJob
    /\ timezones = [u \in Users |-> DEFAULT_TIMEZONE]
    /\ fn \in ScoreCalls

ApplyBurnoutRisk ==
    /\ fn.name = "_burnout_risk"
    /\ fn.result = None
    /\ fn' = [fn EXCEPT !.result = Some(
           _burnout_risk(fn.args.workouts_14, fn.args.avg_duration_7, fn.args.target_minutes))]
    /\ UNCHANGED <<job, predictions, pending, workout_rows, tokens, timezones, today, profiles, metrics, plans, adjustments, reports, llm_calls, last>>

\* the result None of the function is kept as Some(None)
ApplyMaxGapDays ==
    /\ fn.name = "_max_gap_days"
    /\ fn.result = None
    /\ fn' = [fn EXCEPT !.result = Some(_max_gap_days(fn.args.worked_dates, fn.args.today))]
    /\ UNCHANGED <<job, predictions, pending, workout_rows, tokens, timezones, today, profiles, metrics, plans, adjustments, reports, llm_calls, last>>

ApplyAdherenceType ==
    /\ fn.name = "_adherence_type"
    /\ fn.result = None
    /\ fn' = [fn EXCEPT !.result = Some(
           _adherence_type(fn.args.worked_dates, fn.args.today, fn.args.max_gap_days))]
    /\ UNCHANGED <<job, predictions, pending, workout_rows, tokens, timezones, today, profiles, metrics, plans, adjustments, reports, llm_calls, last>>

NextScores ==
    \/ ApplyBurnoutRisk
    \/ ApplyAdherenceType
    \/ ApplyMaxGapDays

SpecScores == InitScores /\ [][NextScores]_vars

\* Predictions of the users as the metrics of one of them change: consistency
\* 100, 83.3, 66.7 and 50 (and no metrics at all for the other user).
PredictionHistories == {<<2, 1200>>, <<3, 1200>>, <<4, 1200>>, <<5, 1200>>}
PredictionComputeMetrics ==
    \E h \in PredictionHistories :
        ComputeMetrics(PlanUser, None, Stride(h[1], today), h[2], 1000, None)

NextPrediction ==
    \/ PredictionComputeMetrics
    \/ \E u \in UserIds : ComputePrediction(u)

SpecPrediction == Init /\ [][NextPrediction]_vars

\* --------------------------------------------------------------- weekly job
\* _is_report_window: the user's local day is a Monday (the hour of the run is
\* within 03:00-05:59 there); an unknown zone answers False.
JobZone(u) == _sanitize_timezone(OrText(timezones[u], "Asia/Kolkata"))
_is_report_window(u) ==
    /\ KnownZone(JobZone(u))
    /\ weekday(Get(user_today(JobZone(u)))) = 0

\* today - timedelta(days=today.weekday()) in the user's zone
this_week_start(u) ==
    LET local == Get(user_today(JobZone(u))) IN local - weekday(local)

\* the orders in which db.query(User).all() can list the users in the window
InWindowOrders ==
    LET in_window == {u \in Users : _is_report_window(u)}
    IN  {order \in UNION {[1..n -> in_window] : n \in 0..Cardinality(Users)} :
            /\ Len(order) = Cardinality(in_window)
            /\ \A i, k \in 1..Len(order) : i # k => order[i] # order[k]}

\* the loop moves to the next user, or ends
NextUser(j) ==
    [j EXCEPT !.users = Tail(j.users),
              !.pc = IF Tail(j.users) = << >> THEN "done" ELSE "prediction",
              !.prediction = None,
              !.adjustment = None]

\* A handler around the whole loop: the first failure ends the job.
OnExceptionAbort(j) ==
    [j EXCEPT !.error_count = j.error_count + 1,
              !.users = << >>,
              !.pc = "done",
              !.prediction = None,
              !.adjustment = None]

\* except Exception: db.rollback(); error_count += 1, then the next user. Every
\* service committed what it wrote, so the rollback discards nothing.
OnException(j) == NextUser([j EXCEPT !.error_count = j.error_count + 1])

OnSuccess(j) == NextUser([j EXCEPT !.success_count = j.success_count + 1])

\* run_weekly_job up to the loop: the users in the window, both counters at 0
StartWeeklyJob ==
    /\ job.pc \in {"idle", "done"}
    /\ \E order \in InWindowOrders :
          job' = [pc |-> IF order = << >> THEN "done" ELSE "prediction",
                  users |-> order, success_count |-> 0, error_count |-> 0,
                  prediction |-> None, adjustment |-> None]
    /\ UNCHANGED <<predictions, pending, workout_rows, tokens, timezones, today, profiles, metrics, plans, adjustments, reports, llm_calls, last, fn>>

\* prediction_svc.compute_prediction(u.id), which commits its row
WeeklyJobPrediction ==
    /\ job.pc = "prediction"
    /\ compute_prediction(Head(job.users))
    /\ job' = IF last'.err # "" THEN OnException(job)
              ELSE [job EXCEPT !.pc = "adjustment", !.prediction = last'.ret]

\* plan_svc.compute_weekly_adjustment(u.id, this_week_start), which commits the
\* plan and the row when it creates one
WeeklyJobAdjustment ==
    /\ job.pc = "adjustment"
    /\ compute_weekly_adjustment(Head(job.users), this_week_start(Head(job.users)))
    /\ job' = IF last'.err # "" THEN OnException(job)
              ELSE [job EXCEPT !.pc = "report",
                               !.adjustment = IF adjustments' # adjustments
                                              THEN last'.ret ELSE None]

\* report_svc.generate_weekly_report(u.id), then success_count += 1 or the handler
WeeklyJobReport ==
    /\ job.pc = "report"
    /\ \E n \in 0..MaxWorkouts, volume \in {0, 1200}, avg_dur \in {None, Some(60)},
          wdw \in ReportWorkedDates(_get_last_week_bounds(today)[1]) :
          /\ ReportQueryResultsAgree(n, volume, avg_dur, wdw)
          /\ generate_weekly_report(Head(job.users), n, volume, avg_dur, 2, 1000,
                                    Some(50), wdw, None)
    /\ job' = IF last'.err # "" THEN OnException(job) ELSE OnSuccess(job)

\* The hourly job on a Monday morning, both users in the window; the first has a
\* plan and nightly metrics (burnout high, or momentum rising).
WeeklyComputeMetrics ==
    \E h \in {<<1, 1200>>, <<2, 1200>>} :
        ComputeMetrics(PlanUser, None, Stride(h[1], today), h[2], 1000, None)

NextWeekly ==
    \/ CreatePlan(PlanUser)
    \/ UpdatePreferences(PlanUser, TRUE)
    \/ WeeklyComputeMetrics
    \/ StartWeeklyJob
    \/ WeeklyJobPrediction
    \/ WeeklyJobAdjustment
    \/ WeeklyJobReport

SpecWeekly == Init /\ [][NextWeekly]_vars

\* The narrative of a generated report as a function of what the generator
\* answers and of the facts it was given.
NarrativeTexts(count) ==
    {None, Some(Text(<< >>, {})), Some(Text(<<"summary">>, {})),
     Some(Text(<<"summary">>, {count})), Some(Text(<<"summary">>, {count, 999})),
     Some(Text(<<"summary">>, {999}))}
NarrativeArgs ==
    UNION {[bedrock_ready : BOOLEAN,
            text_out : NarrativeTexts(n),
            workouts_count : {n},
            volume_delta_pct : {None, Some(0 - 300), Some(125)},
            focus : {None, Some(<<"hit_target_days">>)},
            signal : {None, Some("volume_up")}] : n \in 2..(MaxWorkouts + 1)}

InitNarrative ==
    /\ today = FirstDay
    /\ profiles = [u \in Users |-> None]
    /\ metrics = << >>
    /\ plans = [u \in Users |-> None]
    /\ adjustments = << >>
    /\ reports = << >>
    /\ llm_calls = 0
    /\ last = NoCall
    /\ pending = [c \in Callers |-> None]
    /\ workout_rows = << >>
    /\ tokens = << >>
    /\ predictions = << >>
    /\ job = NoJob
    /\ timezones = [u \in Users |-> DEFAULT_TIMEZONE]
    /\ fn \in {[name |-> "narrative", args |-> a, result |-> None] : a \in NarrativeArgs}

ApplySelectNarrative ==
    /\ fn.name = "narrative"
    /\ fn.result = None
    /\ fn' = [fn EXCEPT !.result = Some(
           SelectNarrative(generate_weekly_narrative(fn.args.bedrock_ready, fn.args.text_out),
                           [count |-> fn.args.workouts_count, focus |-> fn.args.focus,
                            signal |-> fn.args.signal],
                           FactNumbers(fn.args.workouts_count, fn.args.volume_delta_pct)))]
    /\ UNCHANGED <<job, predictions, pending, workout_rows, tokens, timezones, today, profiles, metrics, plans, adjustments, reports, llm_calls, last>>

NextNarrative == ApplySelectNarrative

SpecNarrative == InitNarrative /\ [][NextNarrative]_vars

\* ------------------------------------------------------------------- claims
Rows(table) == {table[i] : i \in 1..Len(table)}
AdjustmentsOf(u, w) == {a \in Rows(adjustments) : a.plan_id = u /\ a.week_start = w}
ReportsOf(u, w) == {r \in Rows(reports) : r.user_id = u /\ r.week_start = w}
MetricsOf(u, d) == {r \in Rows(metrics) : r.user_id = u /\ r.metrics_date = d}
AutoAdjustOn(u) == plans[u] # None /\ Get(plans[u]).auto_adjust_enabled
\* the step is a call of compute_weekly_adjustment(u, w)
AdjustmentCall(u, w) ==
    last'.op = "compute_weekly_adjustment" /\ last'.user = u /\ last'.key = w
PlanWeeks == {FirstDay + 7 * w : w \in 1..MaxWeek}

\* C1: the plan's volume_multiplier, and previous_volume_multiplier and
\* new_volume_multiplier of every adjustment row, lie within [0.6, 1.2] in every
\* reachable state.
C1_VolumeWithinBounds ==
    /\ \A u \in Users :
         plans[u] # None =>
           (60 <= Get(plans[u]).volume_multiplier /\ Get(plans[u]).volume_multiplier <= 120)
    /\ \A a \in Rows(adjustments) :
         /\ 60 <= a.previous_volume_multiplier /\ a.previous_volume_multiplier <= 120
         /\ 60 <= a.new_volume_multiplier /\ a.new_volume_multiplier <= 120

\* a deload from 0.8, whose product 0.48 the clamp raised to the floor
C1_Witness ==
    \E a \in Rows(adjustments) :
        a.is_deload /\ a.previous_volume_multiplier = 80 /\ a.new_volume_multiplier = 60

C2_AtMostOnePerWeek ==
    \A i, j \in 1..Len(adjustments) :
        (adjustments[i].plan_id = adjustments[j].plan_id
         /\ adjustments[i].week_start = adjustments[j].week_start) => i = j

\* C2 as stated: at most one adjustment per (plan, week_start), and a call for a
\* week that already has an adjustment returns that adjustment and leaves the
\* plan and the history unchanged.
C2_ExistingIsReturned ==
    /\ []C2_AtMostOnePerWeek
    /\ [][\A u \in Users, w \in PlanWeeks :
            (AdjustmentCall(u, w) /\ AdjustmentsOf(u, w) # {})
              => (last'.ret = AdjustmentsOf(u, w) /\ UNCHANGED <<plans, adjustments>>)]_vars

\* C2 amended: at most one adjustment per (plan, week_start); a call for a week that
\* already has an adjustment leaves the plan and the history unchanged, and returns
\* that adjustment while auto_adjust_enabled is true and nothing once it is false.
C2_ExistingIsReturnedWhileEnabled ==
    /\ []C2_AtMostOnePerWeek
    /\ [][\A u \in Users, w \in PlanWeeks :
            (AdjustmentCall(u, w) /\ AdjustmentsOf(u, w) # {})
              => /\ UNCHANGED <<plans, adjustments>>
                 /\ AutoAdjustOn(u) => last'.ret = AdjustmentsOf(u, w)
                 /\ ~AutoAdjustOn(u) => last'.ret = None]_vars

C2_Witness ==
    /\ last.op = "compute_weekly_adjustment"
    /\ last.path = "existing"
    /\ last.ret # None
    /\ last.ret = AdjustmentsOf(last.user, last.key)

\* the latest metrics row of the user
LatestRow(u) ==
    LET mine == {i \in 1..Len(metrics) : metrics[i].user_id = u}
    IN  IF mine = {} THEN None ELSE Some(metrics[SetMax(mine)])
RisingNoOtherRule(u) ==
    /\ LatestRow(u) # None
    /\ Get(LatestRow(u)).momentum_trend = "rising"
    /\ Get(LatestRow(u)).burnout_risk # "high"
    /\ Get(LatestRow(u)).primary_training_mistake_key # Some("volume_drop")

\* C3: when the adjustment of the week before week_start is a deload, a call for
\* week_start with rising momentum, burnout not high and no volume_drop mistake
\* creates no adjustment and leaves the multiplier unchanged, whatever the
\* consistency score (95 and 100 included).
C3_NoIncreaseAfterDeload ==
    [][\A u \in Users, w \in PlanWeeks :
         (/\ AdjustmentCall(u, w)
          /\ AutoAdjustOn(u)
          /\ AdjustmentsOf(u, w) = {}
          /\ \E a \in AdjustmentsOf(u, w - 7) : a.is_deload
          /\ RisingNoOtherRule(u))
           => (last'.ret = None /\ UNCHANGED <<plans, adjustments>>)]_vars

C3_Witness ==
    /\ last.op = "compute_weekly_adjustment"
    /\ last.path = "suppressed"
    /\ AutoAdjustOn(last.user)
    /\ \E a \in AdjustmentsOf(last.user, last.key - 7) : a.is_deload
    /\ AdjustmentsOf(last.user, last.key) = {}
    /\ RisingNoOtherRule(last.user)
    /\ Get(LatestRow(last.user)).consistency_score >= 950

BurnoutHigh(u) == LatestRow(u) # None /\ Get(LatestRow(u)).burnout_risk = "high"

\* C4: with burnout_risk high, a call on a plan at 1.0 sets the multiplier to 0.6
\* and appends one deload row (1.0 -> 0.6); a call on a plan already at 0.6 appends
\* no row, returns nothing and leaves the multiplier at 0.6.
C4_DeloadAtFloorWritesNothing ==
    [][\A u \in Users, w \in PlanWeeks :
         (AdjustmentCall(u, w) /\ AutoAdjustOn(u) /\ AdjustmentsOf(u, w) = {}
          /\ BurnoutHigh(u))
           => /\ Get(plans[u]).volume_multiplier = 100
                   => /\ Get(plans'[u]).volume_multiplier = 60
                      /\ Len(adjustments') = Len(adjustments) + 1
                      /\ SubSeq(adjustments', 1, Len(adjustments)) = adjustments
                      /\ LET a == adjustments'[Len(adjustments')]
                         IN  /\ a.plan_id = u /\ a.week_start = w /\ a.is_deload
                             /\ a.previous_volume_multiplier = 100
                             /\ a.new_volume_multiplier = 60
              /\ Get(plans[u]).volume_multiplier = 60
                   => (last'.ret = None /\ UNCHANGED <<plans, adjustments>>)]_vars

\* a deload 1.0 -> 0.6, then burnout high again the week after: nothing written
C4_Witness ==
    /\ last.op = "compute_weekly_adjustment"
    /\ last.path = "deload"
    /\ last.ret = None
    /\ BurnoutHigh(last.user)
    /\ Get(plans[last.user]).volume_multiplier = 60
    /\ AdjustmentsOf(last.user, last.key) = {}
    /\ \E a \in AdjustmentsOf(last.user, last.key - 7) :
          a.is_deload /\ a.previous_volume_multiplier = 100 /\ a.new_volume_multiplier = 60

C5_OneRowPerKey ==
    \A i, j \in 1..Len(metrics) :
        (metrics[i].user_id = metrics[j].user_id
         /\ metrics[i].metrics_date = metrics[j].metrics_date) => i = j

\* C5: after every compute_metrics call for (user, metrics_date) there is exactly
\* one stored snapshot of that key, holding the values that call computed, and the
\* snapshots of every other key are as they were.
C5_UpsertReplaces ==
    /\ []C5_OneRowPerKey
    /\ [][(last'.op = "compute_metrics" /\ last'.err = "")
            => /\ {r \in Rows(metrics') :
                     r.user_id = last'.user /\ r.metrics_date = last'.key} = {last'.arg.row}
               /\ last'.ret = {last'.arg.row}
               /\ \A r \in Rows(metrics) :
                    (r.user_id # last'.user \/ r.metrics_date # last'.key)
                      => r \in Rows(metrics')
               /\ \A r \in Rows(metrics') :
                    (r.user_id # last'.user \/ r.metrics_date # last'.key)
                      => r \in Rows(metrics)]_vars

\* a second computation for a key, with snapshots of another user and date stored
C5_Witness ==
    /\ last.op = "compute_metrics"
    /\ last.path = "update"
    /\ MetricsOf(last.user, last.key) = {last.arg.row}
    /\ \E r \in Rows(metrics) : r.user_id # last.user
    /\ \E r \in Rows(metrics) : r.user_id = last.user /\ r.metrics_date # last.key

InconsistentCondition(a) ==
    \/ a.workouts_14 < (IF a.target_days * 2 - 1 > 0 THEN a.target_days * 2 - 1 ELSE 0)
    \/ (a.max_gap # None /\ Get(a.max_gap) > 4)
VolumeDropCondition(a) ==
    a.volume_prev_7 > 0 /\ (a.volume_prev_7 - a.volume_7) * 4 >= a.volume_prev_7

\* C6: when the inconsistent_training_days condition and the volume_drop condition
\* both hold the mistake is inconsistent_training_days; volume_drop is reported only
\* when the first condition is false, sessions_too_short only when both are false.
C6_MistakePriority ==
    (fn.name = "_detect_mistake" /\ fn.result # None) =>
        LET mistake == Get(fn.result)
        IN  /\ (InconsistentCondition(fn.args) /\ VolumeDropCondition(fn.args))
                 => mistake = Some("inconsistent_training_days")
            /\ mistake = Some("volume_drop") => ~InconsistentCondition(fn.args)
            /\ mistake = Some("sessions_too_short")
                 => (~InconsistentCondition(fn.args) /\ ~VolumeDropCondition(fn.args))

C6_Witness ==
    /\ fn.name = "_detect_mistake"
    /\ fn.result = Some(Some("inconsistent_training_days"))
    /\ InconsistentCondition(fn.args)
    /\ VolumeDropCondition(fn.args)

\* the step is a call of generate_weekly_report by a user with no report for the
\* last completed week
FirstReportCall(u) ==
    /\ last'.op = "generate_weekly_report" /\ last'.user = u
    /\ ReportsOf(u, _get_last_week_bounds(today)[1]) = {}

\* C7: with 2 or more finalized workouts in the last completed week and no report
\* for it yet, generate_weekly_report completes without error and stores a report
\* with status generated and a narrative whose source is llm or fallback.
C7_TwoWorkoutsGenerate ==
    [][\A u \in Users :
         (FirstReportCall(u) /\ last'.arg >= 2)
           => /\ last'.err = ""
              /\ last'.ret # None
              /\ last'.ret \subseteq Rows(reports')
              /\ \A r \in last'.ret :
                    /\ r.status = "generated"
                    /\ r.narrative # None
                    /\ r.narrative_source \in {Some("llm"), Some("fallback")}]_vars

\* C8: with 0 or 1 finalized workouts in the last completed week (and no report
\* for it yet) generate_weekly_report stores a report with status insufficient_data
\* whose mistake, focus, positive signal, reasons and narrative are null, and the
\* narrative generator is not invoked.
C8_FewWorkoutsInsufficient ==
    [][\A u \in Users :
         (FirstReportCall(u) /\ last'.arg < 2)
           => /\ last'.err = ""
              /\ llm_calls' = llm_calls
              /\ Len(reports') = Len(reports) + 1
              /\ last'.ret = {reports'[Len(reports')]}
              /\ LET r == reports'[Len(reports')]
                 IN  /\ r.user_id = u
                     /\ r.week_start = _get_last_week_bounds(today)[1]
                     /\ r.status = "insufficient_data"
                     /\ r.primary_training_mistake_key = None
                     /\ r.weekly_focus = None
                     /\ r.positive_signal_key = None
                     /\ r.reasons = None
                     /\ r.narrative = None
                     /\ r.narrative_source = None]_vars

C8_Witness ==
    /\ last.op = "generate_weekly_report"
    /\ last.arg = 1
    /\ last.ret # None
    /\ Get(last.ret).status = "insufficient_data"
    /\ Get(last.ret).workouts_count = 1
    /\ Get(last.ret).narrative = None
    /\ last.ret \subseteq Rows(reports)
    /\ llm_calls = 0

C9_OneReportPerWeek ==
    \A i, j \in 1..Len(reports) :
        (reports[i].user_id = reports[j].user_id
         /\ reports[i].week_start = reports[j].week_start) => i = j

\* C9: at most one report per (user, week_start); a call for a week that already
\* has a report returns the stored report and changes nothing (no new narrative),
\* whatever number of workouts the week holds by then.
C9_ExistingReportReturned ==
    /\ []C9_OneReportPerWeek
    /\ [][\A u \in Users :
            (/\ last'.op = "generate_weekly_report" /\ last'.user = u
             /\ ReportsOf(u, _get_last_week_bounds(today)[1]) # {})
              => /\ last'.ret = ReportsOf(u, _get_last_week_bounds(today)[1])
                 /\ last'.err = ""
                 /\ UNCHANGED <<reports, llm_calls>>]_vars

\* the stored report counted fewer than 2 workouts; the week now holds 2 or more
C9_Witness ==
    /\ last.op = "generate_weekly_report"
    /\ last.path = "existing"
    /\ last.arg >= 2
    /\ last.ret # None
    /\ Get(last.ret).workouts_count < 2
    /\ last.ret = ReportsOf(last.user, last.key)

\* C10: a profile target_days_per_week <= 0 (zero included) stores a
\* consistency_score of exactly 100; every stored score lies within [0, 100].
C10_NonPositiveTargetScores100 ==
    /\ \A r \in Rows(metrics) : 0 <= r.consistency_score /\ r.consistency_score <= 1000
    /\ (/\ last.op = "compute_metrics" /\ last.err = ""
        /\ profiles[last.user] # None
        /\ Get(profiles[last.user]).target_days_per_week # None
        /\ Get(Get(profiles[last.user]).target_days_per_week) <= 0)
         => Get(last.ret).consistency_score = 1000

\* C11 as stated: the stored volume_delta_vs_prev_week is null when the prior 7-day
\* volume is 0 and is exactly (current - prior) / prior * 100 otherwise.
C11_DeltaIsExactQuotient ==
    (last.op = "compute_metrics" /\ last.err = "") =>
        LET cur == last.arg.volume_7
            prior == last.arg.volume_prev_7
            stored == Get(last.ret).volume_delta_vs_prev_week     \* in tenths of a percent
        IN  /\ prior = 0 => stored = None
            /\ prior # 0 => (stored # None /\ Get(stored) * prior = (cur - prior) * 1000)

\* C11 amended: the stored volume_delta_vs_prev_week is null when the prior 7-day
\* volume is 0 (never 0, infinity or an error), and otherwise it is
\* (current - prior) / prior * 100 rounded to one decimal place: it differs from the
\* quotient by at most 0.05.
C11_DeltaIsRoundedQuotient ==
    (last.op = "compute_metrics" /\ last.err = "") =>
        LET cur == last.arg.volume_7
            prior == last.arg.volume_prev_7
            stored == Get(last.ret).volume_delta_vs_prev_week     \* in tenths of a percent
        IN  /\ prior = 0 => stored = None
            /\ prior # 0 =>
                 /\ stored # None
                 /\ 2 * (Get(stored) * prior - (cur - prior) * 1000) <= prior
                 /\ 2 * ((cur - prior) * 1000 - Get(stored) * prior) <= prior

\* a prior volume of 0 with a positive current volume: the stored delta is null
C11_Witness ==
    /\ last.op = "compute_metrics" /\ last.err = ""
    /\ last.arg.volume_prev_7 = 0
    /\ last.arg.volume_7 > 0
    /\ Get(last.ret).volume_delta_vs_prev_week = None
    /\ last.ret \subseteq Rows(metrics)

WorkoutsWithin(a, lo, hi) ==
    {k \in VolumeOffsets : a.counts[k] > 0 /\ lo <= a.end_date - k /\ a.end_date - k <= hi}

\* C12: get_volume_over_time returns a dense series: for group_by = day exactly
\* one bucket for each date of [today - (days - 1), today] in order; for group_by =
\* week one Monday-to-Sunday bucket for each week from the week containing the start
\* date to the week containing today, consecutive; a bucket containing no finalized
\* workout has total_volume_kg = 0 and workout_count = 0.
C12_DenseSeries ==
    (fn.name = "get_volume_over_time" /\ fn.result # None) =>
        LET a == fn.args
            data == Get(fn.result)
            start == a.end_date - (a.days - 1)
        IN  /\ a.group_by = "day" =>
                 /\ Len(data) = a.days
                 /\ \A i \in 1..Len(data) :
                       /\ data[i].period_start = start + i - 1
                       /\ data[i].period_end = start + i - 1
            /\ a.group_by = "week" =>
                 /\ Len(data) >= 1
                 /\ data[1].period_start <= start /\ start <= data[1].period_end
                 /\ data[Len(data)].period_start <= a.end_date
                 /\ a.end_date <= data[Len(data)].period_end
                 /\ \A i \in 1..Len(data) :
                       /\ data[i].period_start % 7 = 0
                       /\ data[i].period_end = data[i].period_start + 6
                       /\ i > 1 => data[i].period_start = data[i - 1].period_start + 7
            /\ \A i \in 1..Len(data) :
                 WorkoutsWithin(a, data[i].period_start, data[i].period_end) = {}
                   => (data[i].total_volume_kg = 0 /\ data[i].workout_count = 0)

\* three weekly buckets, the middle one empty between two that hold workouts
C12_Witness ==
    /\ fn.name = "get_volume_over_time" /\ fn.result # None
    /\ fn.args.group_by = "week"
    /\ Len(Get(fn.result)) = 3
    /\ Get(fn.result)[1].workout_count > 0
    /\ Get(fn.result)[2].workout_count = 0 /\ Get(fn.result)[2].total_volume_kg = 0
    /\ Get(fn.result)[3].workout_count > 0

\* the selected users every one of whose steps succeeds
NonFailing(call) ==
    {u \in Users :
        /\ \E i \in 1..Len(call.user_ids) : call.user_ids[i] = u
        /\ u \notin call.failing
        /\ user_today(OrText(Strip(OrText(timezones[u], DEFAULT_TIMEZONE)), DEFAULT_TIMEZONE))
             # None}

\* C13: whatever user fails in whatever per-user step (resolving the local date
\* from the stored timezone included), run_nightly_job returns normally with
\* success_count + error_count equal to the number of selected users, and every
\* non-failing selected user has a snapshot for their local today.
C13_NightlyIsolation ==
    last.op = "run_nightly_job" =>
        /\ last.err = ""
        /\ last.ret # None
        /\ Get(last.ret)[1] + Get(last.ret)[2] = Len(last.arg.user_ids)
        /\ \A u \in NonFailing(last.arg) : MetricsOf(u, today) # {}

C15_LoserIsNoOp ==
    [][\A c \in Callers :
          (pending[c] # None /\ pending'[c] = None
           /\ UniqueViolation(Get(pending[c]).user, Get(pending[c]).week_start))
          => /\ last'.op = "compute_weekly_adjustment"
             /\ last'.err = ""
             /\ adjustments' = adjustments
             /\ plans' = plans]_vars

\* C16: for a stored timezone string that is empty, holds a character outside the
\* allow-list, or is well-formed but no known zone, compute_metrics raises no
\* error to its caller and computes the snapshot with UTC day boundaries.
BadTimezone(tz) == tz = "" \/ ~MatchesAllowList(tz) \/ ~KnownZone(tz)

C16_BadTimezoneDegradesToUTC ==
    [][(last'.op = "compute_metrics" /\ last'.user \in Users
        /\ BadTimezone(timezones[last'.user]))
       => /\ last'.err = ""
          /\ last'.arg.user_tz = "UTC"]_vars

\* C17: compute_metrics for a user id that does not exist fails with the
\* not-found error (ValueError "User not found"), writes no snapshot and changes
\* no stored state.
C17_UnknownUserFails ==
    [][(last'.op = "compute_metrics" /\ last'.user \notin Users)
       => /\ last'.err = "ValueError"
          /\ last'.path = "user_not_found"
          /\ last'.ret = None
          /\ UNCHANGED <<job, predictions, metrics, profiles, plans, adjustments, reports, timezones,
                         workout_rows, tokens>>]_vars

C17_Witness ==
    /\ last.op = "compute_metrics"
    /\ last.user = UnknownUser
    /\ last.err = "ValueError"
    /\ Len(metrics) > 0

\* C18: finalized and abandoned are terminal. finish_workout on a finalized
\* workout returns it with the same end_time, completion_status and
\* lifecycle_status; finish_workout on an abandoned workout fails and leaves it
\* abandoned; no start, finish, discard or auto-abandon moves a workout out of
\* finalized or abandoned.
Terminal(w) == w.lifecycle_status \in {"finalized", "abandoned"}

C18_TerminalStates ==
    [][/\ \A i \in 1..Len(workout_rows) :
            Terminal(workout_rows[i])
            => /\ i <= Len(workout_rows')
               /\ workout_rows'[i].lifecycle_status = workout_rows[i].lifecycle_status
               /\ workout_rows'[i].end_time = workout_rows[i].end_time
               /\ workout_rows'[i].completion_status = workout_rows[i].completion_status
       /\ (last'.op = "finish_workout" /\ WorkoutById(last'.key) # None
           /\ Get(WorkoutById(last'.key)).user_id = last'.user)
          => LET w == Get(WorkoutById(last'.key))
             IN  /\ w.lifecycle_status = "finalized"
                    => last'.err = "" /\ last'.ret = Some(w)
                 /\ w.lifecycle_status = "abandoned" => last'.err = "400"]_vars

C18_Witness ==
    /\ last.op = "finish_workout"
    /\ last.path = "already_finalized"
    /\ Get(last.ret).end_time # Some(today)
    /\ Get(last.ret).completion_status # Some(last.arg)
    /\ \E i \in 1..Len(workout_rows) : workout_rows[i].lifecycle_status = "abandoned"

\* C19: a refresh token is exchanged successfully at most once. After
\* refresh_access_token has succeeded with a token, every later call with it
\* fails with the reuse-detected error and revokes every token of its family, so
\* the replacement issued by the first exchange cannot be exchanged either.
RefreshCall(c) == c.op = "refresh_access_token"
Exchanged(t) == t.used_at # None

C19_SingleUse ==
    [][/\ \A i \in 1..Len(tokens) :
            \* a used or revoked token stays so
            /\ Exchanged(tokens[i]) => Exchanged(tokens'[i])
            /\ tokens[i].revoked_at # None => tokens'[i].revoked_at # None
       /\ \A i \in 1..Len(tokens) :
            (RefreshCall(last') /\ hash_token(last'.key) = tokens[i].token_hash)
            => /\ last'.err = "" => (~Exchanged(tokens[i]) /\ Exchanged(tokens'[i]))
               /\ Exchanged(tokens[i])
                  => /\ last'.path = "reuse_detected"
                     /\ last'.err # ""
                     /\ \A j \in 1..Len(tokens') :
                          tokens'[j].token_family_id = tokens[i].token_family_id
                          => tokens'[j].revoked_at # None
               /\ tokens[i].revoked_at # None => last'.err # ""]_vars

C19_Witness ==
    /\ RefreshCall(last)
    /\ last.path = "reuse_detected"
    /\ \E i, j \in 1..Len(tokens) :
         /\ tokens[i].token_hash = hash_token(last.key)
         /\ tokens[i].replaced_by_id = Some(tokens[j].id)
         /\ ~Exchanged(tokens[j])
         /\ tokens[j].revoked_at = Some(today)

\* C20: momentum suppression after a deload lasts only for the week right after
\* it. When the plan's most recent adjustment is a deload two or more weeks before
\* the week computed (the week before has no adjustment), latest metrics with
\* rising momentum and consistency_score >= 80, burnout not high and no
\* volume_drop mistake produce a volume increase whenever the multiplier is
\* below 1.2.
C20_SuppressionLastsOneWeek ==
    [][\A u \in Users, w \in SkipWeeks :
         (/\ AdjustmentCall(u, w)
          /\ AutoAdjustOn(u)
          /\ AdjustmentsOf(u, w) = {}
          /\ AdjustmentsOf(u, w - 7) = {}
          /\ LastAdjustment(u, w) # None
          /\ Get(LastAdjustment(u, w)).is_deload
          /\ Get(LastAdjustment(u, w)).week_start <= w - 14
          /\ RisingNoOtherRule(u)
          /\ Get(LatestRow(u)).consistency_score >= 800
          /\ Get(plans[u]).volume_multiplier < 120)
           => /\ last'.path = "increase"
              /\ last'.ret # None
              /\ Get(last'.ret).trigger_reason = TRIGGER_MOMENTUM_UP
              /\ Get(plans'[u]).volume_multiplier > Get(plans[u]).volume_multiplier]_vars

\* C21: a momentum adjustment sets new_volume_multiplier to
\* min(1.2, previous_volume_multiplier * 1.1), rounded to two decimals, for every
\* previous multiplier in [0.6, 1.2], and creates no row when that equals the
\* previous value.
TimesOnePointOne(prev) == Min2(120, RoundHalfEven(prev * 110, 100))

C21_IncreaseMultipliesBy1_1 ==
    [][\A u \in Users :
         (/\ last'.op = "compute_weekly_adjustment"
          /\ last'.user = u
          /\ last'.path = "increase")
         => LET prev == Get(plans[u]).volume_multiplier
            IN  IF TimesOnePointOne(prev) = prev
                THEN last'.ret = None /\ UNCHANGED <<plans, adjustments>>
                ELSE /\ last'.ret # None
                     /\ Get(last'.ret).previous_volume_multiplier = prev
                     /\ Get(last'.ret).new_volume_multiplier = TimesOnePointOne(prev)
                     /\ Get(plans'[u]).volume_multiplier = TimesOnePointOne(prev)]_vars

\* C22: burnout_risk is high whenever workouts_last_14_days >= 12, whatever the
\* duration; medium when workouts_last_14_days is 10 or 11 and the average
\* duration is at least 60 minutes; low otherwise.
C22_BurnoutRisk ==
    (fn.name = "_burnout_risk" /\ fn.result # None) =>
        LET w == fn.args.workouts_14
            long == fn.args.avg_duration_7 # None /\ Get(fn.args.avg_duration_7) >= 60
        IN  Get(fn.result) =
                IF w >= 12 THEN "high"
                ELSE IF w >= 10 /\ long THEN "medium"
                ELSE "low"

\* C23: compute_weekly_adjustment evaluates deload, slipping and momentum in that
\* order and the first matching rule wins. With burnout_risk high any adjustment
\* created is a deload (x0.6, trigger burnout, is_deload true), even with a
\* volume_drop mistake or rising momentum; with burnout not high and a volume_drop
\* mistake any adjustment created is a reduction (x0.8, trigger slipping, is_deload
\* false), even with rising momentum; an increase (trigger momentum_up) is created
\* only when neither earlier rule matches.
VolumeDropMistake(u) ==
    /\ LatestRow(u) # None
    /\ Get(LatestRow(u)).primary_training_mistake_key = Some(PRIMARY_MISTAKE_VOLUME_DROP)
Times(prev, pct) == Min2(120, Max2(60, RoundHalfEven(prev * pct, 100)))

C23_RuleOrder ==
    [][\A u \in Users :
         (/\ last'.op = "compute_weekly_adjustment"
          /\ last'.user = u
          /\ adjustments' # adjustments)
         => LET a == adjustments'[Len(adjustments')]
                prev == Get(plans[u]).volume_multiplier
            IN  /\ Len(adjustments') = Len(adjustments) + 1
                /\ last'.ret = Some(a)
                /\ BurnoutHigh(u)
                   => /\ a.is_deload
                      /\ a.trigger_reason = TRIGGER_BURNOUT
                      /\ a.new_volume_multiplier = Times(prev, 60)
                /\ (~BurnoutHigh(u) /\ VolumeDropMistake(u))
                   => /\ ~a.is_deload
                      /\ a.trigger_reason = TRIGGER_SLIPPING
                      /\ a.new_volume_multiplier = Times(prev, 80)
                /\ a.trigger_reason = TRIGGER_MOMENTUM_UP
                   => ~BurnoutHigh(u) /\ ~VolumeDropMistake(u)]_vars

\* a deload created while the momentum is rising
C23_Witness ==
    /\ last.op = "compute_weekly_adjustment"
    /\ last.path = "deload"
    /\ last.ret # None
    /\ Get(last.ret).is_deload
    /\ BurnoutHigh(last.user)
    /\ Get(LatestRow(last.user)).momentum_trend = "rising"
    /\ Get(LatestRow(last.user)).consistency_score >= 800

\* C24: when the most recent earlier adjustment is a non-deload that decreased
\* volume (new < previous), a week with rising momentum produces a volume increase
\* only if consistency_score >= 85: scores in [80, 85) produce no adjustment. With
\* no earlier adjustment, or an earlier adjustment that increased volume, the
\* threshold is 80.
EarlierDecrease(u, w) ==
    /\ LastAdjustment(u, w) # None
    /\ ~Get(LastAdjustment(u, w)).is_deload
    /\ Get(LastAdjustment(u, w)).new_volume_multiplier
         < Get(LastAdjustment(u, w)).previous_volume_multiplier
EarlierNoneOrIncrease(u, w) ==
    \/ LastAdjustment(u, w) = None
    \/ /\ ~Get(LastAdjustment(u, w)).is_deload
       /\ Get(LastAdjustment(u, w)).new_volume_multiplier
            > Get(LastAdjustment(u, w)).previous_volume_multiplier

C24_RaisedThresholdAfterDecrease ==
    [][\A u \in Users, w \in PlanWeeks :
         (/\ AdjustmentCall(u, w)
          /\ AutoAdjustOn(u)
          /\ AdjustmentsOf(u, w) = {}
          /\ RisingNoOtherRule(u))
         => LET score == Get(LatestRow(u)).consistency_score
                increased == /\ last'.ret # None
                             /\ Get(last'.ret).trigger_reason = TRIGGER_MOMENTUM_UP
                             /\ adjustments' = Append(adjustments, Get(last'.ret))
                nothing == last'.ret = None /\ UNCHANGED <<plans, adjustments>>
                below_cap == Get(plans[u]).volume_multiplier < 120
            IN  /\ EarlierDecrease(u, w)
                   => /\ score < 850 => nothing
                      /\ (score >= 850 /\ below_cap) => increased
                /\ EarlierNoneOrIncrease(u, w)
                   => /\ score < 800 => nothing
                      /\ (score >= 800 /\ below_cap) => increased]_vars

\* a score of 83.3 after a reduction: no adjustment
C24_Witness ==
    /\ last.op = "compute_weekly_adjustment"
    /\ last.path = "none"
    /\ last.ret = None
    /\ AutoAdjustOn(last.user)
    /\ EarlierDecrease(last.user, last.key)
    /\ RisingNoOtherRule(last.user)
    /\ Get(LatestRow(last.user)).consistency_score >= 800
    /\ Get(LatestRow(last.user)).consistency_score < 850

\* C25: max_gap_days is the length of the longest run of consecutive calendar
\* dates within [today - 29, today] that are not worked-out dates, the run from
\* the window start to the first workout and the run after the last workout
\* through today included; with no workout inside the window the run is the whole
\* 30-day window.
LongestRestRun(worked_dates, day) ==
    LET window == (day - (WINDOW_DAYS - 1))..day
        runs == {<<a, b>> \in window \X window :
                    a <= b /\ \A d \in a..b : d \notin worked_dates}
    IN  IF runs = {} THEN 0 ELSE SetMax({r[2] - r[1] + 1 : r \in runs})

C25_MaxGapIsLongestRun ==
    (fn.name = "_max_gap_days" /\ fn.result # None) =>
        Get(fn.result) = Some(LongestRestRun(fn.args.worked_dates, fn.args.today))

\* C26: adherence_type is sporadic if max_gap_days > 4, else weekend_warrior if at
\* least 60% of the worked-out dates of the trailing 14 days (age from today below
\* 14 days, the dates workouts_last_14_days counts) are Saturdays or Sundays, else
\* consistent; with no worked-out date in that window it is sporadic.
C26_AdherenceType ==
    (fn.name = "_adherence_type" /\ fn.result # None) =>
        LET a == fn.args
            last14 == {d \in a.worked_dates : a.today - d < 14}
            weekend == {d \in last14 : weekday(d) >= 5}
        IN  Get(fn.result) =
                IF a.max_gap_days # None /\ Get(a.max_gap_days) > 4 THEN "sporadic"
                ELSE IF last14 = {} THEN "sporadic"
                ELSE IF Cardinality(weekend) * 10 >= Cardinality(last14) * 6
                THEN "weekend_warrior"
                ELSE "consistent"

\* C27: every compute_prediction call for an existing user appends exactly one
\* new prediction row and modifies no earlier row. The new row's weeks_delta is
\* its strength_gain_weeks minus that of the prediction appended immediately
\* before it for the same user (null for the user's first prediction);
\* delta_reason is 'timeline extended' for a positive delta, 'timeline shortened'
\* for a negative one and 'No change' for zero.
PredictionsOf(table, u) == SelectSeq(table, LAMBDA r : r.user_id = u)

C27_PredictionHistory ==
    [][\A u \in Users :
         (last'.op = "compute_prediction" /\ last'.user = u)
         => LET before == PredictionsOf(predictions, u)
                row == predictions'[Len(predictions')]
            IN  /\ Len(predictions') = Len(predictions) + 1
                /\ SubSeq(predictions', 1, Len(predictions)) = predictions
                /\ row.user_id = u
                /\ last'.ret = Some(row)
                /\ IF Len(before) = 0
                   THEN row.weeks_delta = None /\ row.delta_reason = None
                   ELSE LET delta == row.strength_gain_weeks
                                       - before[Len(before)].strength_gain_weeks
                            reason == Get(row.delta_reason)
                        IN  /\ row.weeks_delta = Some(delta)
                            /\ delta > 0 => reason[Len(reason)] = "timeline extended"
                            /\ delta < 0 => reason[Len(reason)] = "timeline shortened"
                            /\ delta = 0 => reason = <<"No change">>]_vars

\* a timeline shortened and then extended for one user, another user's first
\* prediction in between or around
C27_Witness ==
    /\ last.op = "compute_prediction"
    /\ last.ret # None
    /\ Get(last.ret).weeks_delta # None
    /\ Get(Get(last.ret).weeks_delta) > 0
    /\ \E i \in 1..Len(predictions) :
         /\ predictions[i].user_id = last.user
         /\ predictions[i].weeks_delta # None
         /\ Get(predictions[i].weeks_delta) < 0

\* C28: once the plan's most recent adjustment is a deload and its multiplier is
\* 0.6, every compute_weekly_adjustment call for a later week creates no
\* adjustment whatever the latest metrics are (burnout high, volume_drop, rising
\* momentum with any score): the multiplier stays at 0.6.
StuckAtFloor(u) ==
    /\ AutoAdjustOn(u)
    /\ Get(plans[u]).volume_multiplier = 60
    /\ \E a \in Rows(adjustments) :
         /\ a.plan_id = u
         /\ a.is_deload
         /\ \A b \in Rows(adjustments) : b.plan_id = u => b.week_start <= a.week_start
LatestAdjustmentWeek(u) == SetMax({a.week_start : a \in {b \in Rows(adjustments) : b.plan_id = u}})

AppliedTo(u) == SelectSeq(adjustments, LAMBDA a : a.plan_id = u)

C29_MultiplierFollowsAdjustments ==
    \A u \in Users :
        plans[u] # None =>
            LET applied == AppliedTo(u)
            IN  /\ Get(plans[u]).volume_multiplier
                     = IF applied = << >> THEN 100
                       ELSE applied[Len(applied)].new_volume_multiplier
                /\ \A i \in 1..Len(applied) :
                     /\ applied[i].previous_volume_multiplier
                          = IF i = 1 THEN 100 ELSE applied[i - 1].new_volume_multiplier
                     /\ applied[i].new_volume_multiplier # applied[i].previous_volume_multiplier

\* two adjustments applied one after the other, the second starting where the
\* first ended
C29_Witness ==
    /\ last.op = "compute_weekly_adjustment"
    /\ last.ret # None
    /\ Len(AppliedTo(last.user)) >= 2
    /\ AppliedTo(last.user)[2].previous_volume_multiplier # 100

\* C30: the three steps run_weekly_job takes for a user are not atomic: when
\* generate_weekly_report fails for a user, the prediction row and the plan
\* adjustment (with the multiplier it set) created for that user earlier in the
\* same iteration remain committed, the user is counted in error_count, and the
\* users after it are still processed.
ReportFailsInJob ==
    /\ job.pc = "report"
    /\ last'.op = "generate_weekly_report"
    /\ last'.err # ""

C30_WeeklyJobStepsNotAtomic ==
    [][ReportFailsInJob =>
         LET u == Head(job.users)
         IN  /\ job.prediction # None
             /\ \E i \in 1..Len(predictions') : predictions'[i] = Get(job.prediction)
             /\ job.adjustment # None =>
                  /\ \E i \in 1..Len(adjustments') : adjustments'[i] = Get(job.adjustment)
                  /\ Get(plans'[u]).volume_multiplier
                       = Get(job.adjustment).new_volume_multiplier
             /\ UNCHANGED <<predictions, adjustments, plans>>
             /\ job'.error_count = job.error_count + 1
             /\ job'.success_count = job.success_count
             /\ job'.users = Tail(job.users)
             /\ Tail(job.users) # << >> => job'.pc = "prediction"]_vars

\* the job has ended: the first user's report failed after a deload was applied,
\* and the second user was processed after it and has its prediction
C30_Witness ==
    /\ job.pc = "done"
    /\ job.error_count >= 1
    /\ job.success_count + job.error_count = Cardinality(Users)
    /\ \E a \in Rows(adjustments) : a.user_id = PlanUser /\ a.week_start = FirstDay
    /\ ReportsOf(PlanUser, FirstDay - 7) = {}
    /\ \E i, k \in 1..Len(predictions) :
          i < k /\ predictions[i].user_id = PlanUser /\ predictions[k].user_id # PlanUser

====
